---- MODULE Spec2Model ----
(***************************************************************************)
(* JellyDemon: the bandwidth allocation engine and its control loop.       *)
(*                                                                         *)
(* Mbps figures are Python floats in the source.  They are modelled as     *)
(* exact rationals <<n, d>> with d > 0, kept in lowest terms, so that      *)
(* available / N, unit * weight and demand * factor are computed and not   *)
(* approximated by integers.                                               *)
(***************************************************************************)
EXTENDS Integers, Sequences, FiniteSets, TLC

\* ------------------------------------------------------------------------
\* Bounds of the model
\* ------------------------------------------------------------------------
\* largest number of session objects in one answer of GET /Sessions
MaxSessions == 2
\* number of distinct user ids offered to a strategy that is called directly
NumUsers == 2
\* config.daemon.update_interval, the one-second ticks of the sleep
UpdateInterval == 2
\* largest number of entries in the MediaStreams list of a now-playing item
MaxStreams == 2
\* largest number of entries in internal_ranges and in test_external_ranges
MaxRanges == 2

\* ------------------------------------------------------------------------
\* Float arithmetic, as exact rationals
\* ------------------------------------------------------------------------
Abs(n) == IF n < 0 THEN -n ELSE n

RECURSIVE GCD(_, _)
GCD(a, b) == IF b = 0 THEN a ELSE GCD(b, a % b)

Norm(r) ==
    LET g == GCD(Abs(r[1]), r[2])
    IN  IF r[1] = 0 THEN <<0, 1>> ELSE <<r[1] \div g, r[2] \div g>>

Rat(n) == <<n, 1>>

RAdd(a, b) == Norm(<<a[1] * b[2] + b[1] * a[2], a[2] * b[2]>>)
RSub(a, b) == Norm(<<a[1] * b[2] - b[1] * a[2], a[2] * b[2]>>)
RMul(a, b) == Norm(<<a[1] * b[1], a[2] * b[2]>>)
\* a / b for b # 0
RDiv(a, b) ==
    IF b[1] > 0 THEN Norm(<<a[1] * b[2], a[2] * b[1]>>)
                ELSE Norm(<<-(a[1] * b[2]), a[2] * (-b[1])>>)
RLt(a, b) == a[1] * b[2] < b[1] * a[2]
RLe(a, b) == a[1] * b[2] <= b[1] * a[2]
\* Python's max(a, b) and min(a, b): the first argument wins a tie
RMax(a, b) == IF RLt(a, b) THEN b ELSE a
RMin(a, b) == IF RLt(b, a) THEN b ELSE a

\* bits per second to Mbps: x / 1_000_000
ToMbps(bps) == Norm(<<bps, 1000000>>)

RECURSIVE RSum(_, _)
\* sum of f[x] over x in S
RSum(f, S) ==
    IF S = {} THEN Rat(0)
    ELSE LET x == CHOOSE y \in S : TRUE
         IN  RAdd(f[x], RSum(f, S \ {x}))

RECURSIVE RSumSeq(_)
RSumSeq(q) == IF q = <<>> THEN Rat(0) ELSE RAdd(Head(q), RSumSeq(Tail(q)))

EmptyMap == [u \in {} |-> Rat(0)]

\* ------------------------------------------------------------------------
\* Data: sessions, user profiles, external streamers
\* ------------------------------------------------------------------------
\* A text such as "8.8.8.8" is the sequence of its dot-separated fields, a
\* field being its decimal value, or -1 when it is not a decimal number.
\* The one IPv6 text of the model, "::1", has no dot: it is the single
\* field -6.
\* RemoteEndPoint "8.8.8.8:51000" is the sequence of its colon-separated
\* texts, <<>> standing for an absent or empty endpoint.
NoTranscoding == [present |-> FALSE, Bitrate |-> 0]
Transcoding(bps) == [present |-> TRUE, Bitrate |-> bps]

\* NowPlayingItem: HasBitrate tells whether the key Bitrate is there
NowPlaying(hasBitrate, bps, streams) ==
    [present |-> TRUE, HasBitrate |-> hasBitrate, Bitrate |-> bps,
     MediaStreams |-> streams]
NoNowPlaying ==
    [present |-> FALSE, HasBitrate |-> FALSE, Bitrate |-> 0,
     MediaStreams |-> <<>>]

Video(h) == [Type |-> "Video", Height |-> h]
Audio == [Type |-> "Audio", Height |-> 0]

Session(uid, endpoint, paused, playing, transcoding) ==
    [UserId |-> uid, RemoteEndPoint |-> endpoint, IsPaused |-> paused,
     NowPlayingItem |-> playing, TranscodingInfo |-> transcoding]

\* GET /Users/{id}: found = FALSE is the None of get_user_info
Profile(admin, disabled, allFolders) ==
    [found |-> TRUE, IsAdministrator |-> admin, IsDisabled |-> disabled,
     EnableAllFolders |-> allFolders]
NotFound ==
    [found |-> FALSE, IsAdministrator |-> FALSE, IsDisabled |-> FALSE,
     EnableAllFolders |-> FALSE]

Streamer(ip, session, profile) ==
    [ip |-> ip, session_data |-> session, user_data |-> profile]

\* ------------------------------------------------------------------------
\* Usage Estimator
\* ------------------------------------------------------------------------
RECURSIVE FirstVideo(_)
\* the first stream of Type Video, or Audio (no video stream) when none
FirstVideo(streams) ==
    IF streams = <<>> THEN Audio
    ELSE IF Head(streams).Type = "Video" THEN Head(streams)
    ELSE FirstVideo(Tail(streams))

\* ResolutionTier whose thresholds are exclusive
ResolutionTier_Exclusive(height) ==
    IF height > 2160 THEN Rat(25)
    ELSE IF height > 1080 THEN Rat(10)
    ELSE IF height > 720 THEN Rat(5)
    ELSE Rat(3)

ResolutionTier(height) ==
    IF height >= 2160 THEN Rat(25)
    ELSE IF height >= 1080 THEN Rat(10)
    ELSE IF height >= 720 THEN Rat(5)
    ELSE Rat(3)

estimate_required_bandwidth(session_data) ==
    LET transcoding_info == session_data.TranscodingInfo
        now_playing == session_data.NowPlayingItem
        media_bitrate == IF now_playing.HasBitrate THEN now_playing.Bitrate ELSE 0
        video_stream == FirstVideo(now_playing.MediaStreams)
    IN  IF transcoding_info.present /\ transcoding_info.Bitrate > 0
            THEN ToMbps(transcoding_info.Bitrate)
        ELSE IF media_bitrate > 0
            THEN ToMbps(media_bitrate)
        ELSE IF video_stream.Type = "Video"
            THEN ResolutionTier(video_stream.Height)
        ELSE Rat(5)

\* ------------------------------------------------------------------------
\* Allocation strategies.  A call yields [raised, limits]: raised tells that
\* the call ended in an exception, limits is the returned mapping.
\* ------------------------------------------------------------------------
Returned(limits) == [raised |-> FALSE, limits |-> limits]
Raised == [raised |-> TRUE, limits |-> EmptyMap]

\* ClampLimit without the floor
ClampLimit_NoFloor(limit, config) ==
    RMin(config.max_per_user, limit)

\* max(config.min_per_user, min(config.max_per_user, limit))
ClampLimit(limit, config) ==
    RMax(config.min_per_user, RMin(config.max_per_user, limit))

\* EqualSplit with the guard available_bandwidth < 0
EqualSplit_StrictGuard(external_streamers, available_bandwidth, config) ==
    IF DOMAIN external_streamers = {} \/ RLt(available_bandwidth, Rat(0))
    THEN Returned(EmptyMap)
    ELSE LET num_users == Cardinality(DOMAIN external_streamers)
             share == RDiv(available_bandwidth, Rat(num_users))
             raised_to_min == RMax(config.min_per_user, share)
             per_user_bandwidth == RMin(config.max_per_user, raised_to_min)
         IN  Returned([u \in DOMAIN external_streamers |-> per_user_bandwidth])

\* EqualSplit without the ceiling
EqualSplit_NoCeiling(external_streamers, available_bandwidth, config) ==
    IF DOMAIN external_streamers = {} \/ RLe(available_bandwidth, Rat(0))
    THEN Returned(EmptyMap)
    ELSE LET num_users == Cardinality(DOMAIN external_streamers)
             share == RDiv(available_bandwidth, Rat(num_users))
             per_user_bandwidth == RMax(config.min_per_user, share)
         IN  Returned([u \in DOMAIN external_streamers |-> per_user_bandwidth])

EqualSplit_calculate_limits(external_streamers, available_bandwidth, config) ==
    IF DOMAIN external_streamers = {} \/ RLe(available_bandwidth, Rat(0))
    THEN Returned(EmptyMap)
    ELSE LET num_users == Cardinality(DOMAIN external_streamers)
             share == RDiv(available_bandwidth, Rat(num_users))
             raised_to_min == RMax(config.min_per_user, share)
             per_user_bandwidth == RMin(config.max_per_user, raised_to_min)
         IN  Returned([u \in DOMAIN external_streamers |-> per_user_bandwidth])

\* TierRatio with a premium tier that does not look at IsDisabled
TierRatio_IgnoreDisabled(user_info) ==
    IF user_info.IsAdministrator THEN 3
    ELSE IF user_info.EnableAllFolders THEN 2
    ELSE 1

\* the ratio of the first tier that matches: admin 3, premium 2, regular 1
TierRatio(user_info) ==
    IF user_info.IsAdministrator THEN 3
    ELSE IF user_info.IsDisabled = FALSE /\ user_info.EnableAllFolders THEN 2
    ELSE 1

PriorityBased_calculate_limits(external_streamers, available_bandwidth, config) ==
    LET users == DOMAIN external_streamers
    IN  IF users = {} \/ RLe(available_bandwidth, Rat(0))
        THEN Returned(EmptyMap)
        ELSE IF \E u \in users : ~external_streamers[u].user_data.found
        \* user_info is None: user_info.get('Policy', {}) is an AttributeError
        THEN Raised
        ELSE LET ratio == [u \in users |-> TierRatio(external_streamers[u].user_data)]
                 admin_users == {u \in users : ratio[u] = 3}
                 premium_users == {u \in users : ratio[u] = 2}
                 regular_users == {u \in users : ratio[u] = 1}
                 total_weight == Cardinality(admin_users) * 3
                                 + Cardinality(premium_users) * 2
                                 + Cardinality(regular_users) * 1
             IN  IF total_weight = 0 THEN Returned(EmptyMap)
                 ELSE LET bandwidth_per_unit ==
                              RDiv(available_bandwidth, Rat(total_weight))
                      IN  Returned([u \in users |->
                              ClampLimit(RMul(bandwidth_per_unit, Rat(ratio[u])),
                                         config)])

\* DemandBased that always grants the clamped demand
DemandBased_NoScale(external_streamers, available_bandwidth, config) ==
    LET users == DOMAIN external_streamers
    IN  IF users = {} \/ RLe(available_bandwidth, Rat(0))
        THEN Returned(EmptyMap)
        ELSE Returned([u \in users |->
                 ClampLimit(estimate_required_bandwidth(
                                external_streamers[u].session_data), config)])

DemandBased_calculate_limits(external_streamers, available_bandwidth, config) ==
    LET users == DOMAIN external_streamers
    IN  IF users = {} \/ RLe(available_bandwidth, Rat(0))
        THEN Returned(EmptyMap)
        ELSE LET user_demands == [u \in users |->
                     estimate_required_bandwidth(external_streamers[u].session_data)]
                 total_demand == RSum(user_demands, users)
             IN  IF RLe(total_demand, available_bandwidth)
                 THEN Returned([u \in users |-> ClampLimit(user_demands[u], config)])
                 ELSE LET scale_factor == RDiv(available_bandwidth, total_demand)
                      IN  Returned([u \in users |->
                              ClampLimit(RMul(user_demands[u], scale_factor), config)])

KnownAlgorithms == {"equal_split", "priority_based", "demand_based"}

\* BandwidthManager._create_algorithm: an unknown name falls back
create_algorithm(algorithm_name) ==
    IF algorithm_name \in KnownAlgorithms THEN algorithm_name ELSE "equal_split"

Algorithm_calculate_limits(algorithm, external_streamers, available_bandwidth, config) ==
    IF algorithm = "priority_based"
        THEN PriorityBased_calculate_limits(external_streamers, available_bandwidth, config)
    ELSE IF algorithm = "demand_based"
        THEN DemandBased_calculate_limits(external_streamers, available_bandwidth, config)
    ELSE EqualSplit_calculate_limits(external_streamers, available_bandwidth, config)

\* BandwidthManager.calculate_limits: [invoked, raised, limits], invoked
\* telling whether the strategy was called at all
BandwidthManager_calculate_limits(algorithm, external_streamers, available_bandwidth, config) ==
    IF RLt(available_bandwidth, config.min_per_user)
    THEN [invoked |-> FALSE, raised |-> FALSE, limits |-> EmptyMap]
    ELSE LET r == Algorithm_calculate_limits(algorithm, external_streamers,
                                             available_bandwidth, config)
             \* the loop that logs the results: user_info.get('Name', ...)
             \* on a user_info that is None is an AttributeError
             log_raises == \E u \in DOMAIN r.limits :
                               ~external_streamers[u].user_data.found
         IN  IF r.raised \/ log_raises
             THEN [invoked |-> TRUE, raised |-> TRUE, limits |-> EmptyMap]
             ELSE [invoked |-> TRUE, raised |-> FALSE, limits |-> r.limits]

\* ------------------------------------------------------------------------
\* Network Classifier (IPv4 texts and CIDR ranges)
\* ------------------------------------------------------------------------
\* ipaddress.ip_address(text) succeeds on four fields, each in 0..255
ValidIPv4(text) ==
    /\ Len(text) = 4
    /\ \A i \in 1..4 : text[i] >= 0 /\ text[i] <= 255

\* "::1"
IpV6Loopback == <<-6>>

\* ipaddress.ip_address(text) succeeds with an IPv6 address
ValidIPv6(text) == text = IpV6Loopback

Cidr(addr, prefix) == [addr |-> addr, prefix |-> prefix]

\* ipaddress.ip_network(range_str, strict=False) succeeds
ValidCidr(range) ==
    \/ ValidIPv4(range.addr) /\ range.prefix >= 0 /\ range.prefix <= 32
    \/ ValidIPv6(range.addr) /\ range.prefix >= 0 /\ range.prefix <= 128

Pow2(n) == IF n = 0 THEN 1 ELSE IF n = 1 THEN 2 ELSE IF n = 2 THEN 4
           ELSE IF n = 3 THEN 8 ELSE IF n = 4 THEN 16 ELSE IF n = 5 THEN 32
           ELSE IF n = 6 THEN 64 ELSE IF n = 7 THEN 128 ELSE 256

\* number of the bits of octet i that a prefix of the given length covers
PrefixBits(prefix, i) ==
    LET rest == prefix - 8 * (i - 1)
    IN  IF rest <= 0 THEN 0 ELSE IF rest >= 8 THEN 8 ELSE rest

\* ip in network, the host bits of the network masked off; an address is
\* in no network of the other version, and "::1" is in every network that
\* was made from "::1"
InNetwork(ip, network) ==
    IF ValidIPv4(ip) /\ ValidIPv4(network.addr)
    THEN \A i \in 1..4 :
            LET shift == Pow2(8 - PrefixBits(network.prefix, i))
            IN  ip[i] \div shift = network.addr[i] \div shift
    ELSE ValidIPv6(ip) /\ ValidIPv6(network.addr)

\* NetworkUtils.__init__: the ranges that parse, in the order listed
ParseRanges(ranges) == SelectSeq(ranges, ValidCidr)

internal_networks(network_config) == ParseRanges(network_config.internal_ranges)

test_external_networks(network_config) ==
    IF network_config.test_mode /\ network_config.test_external_ranges # <<>>
    THEN ParseRanges(network_config.test_external_ranges)
    ELSE <<>>

\* is_external_ip that looks at the first internal range only
is_external_ip_FirstRange(ip_str, network_config) ==
    LET tests == test_external_networks(network_config)
        internals == internal_networks(network_config)
    IN  IF ~(ValidIPv4(ip_str) \/ ValidIPv6(ip_str)) THEN FALSE
        ELSE IF network_config.test_mode /\ tests # <<>>
            THEN \E i \in 1..Len(tests) : InNetwork(ip_str, tests[i])
        ELSE internals = <<>> \/ ~InNetwork(ip_str, internals[1])

\* is_external_ip that does not parse the address first
is_external_ip_Unparsed(ip_str, network_config) ==
    LET tests == test_external_networks(network_config)
        internals == internal_networks(network_config)
    IN  IF network_config.test_mode /\ tests # <<>>
            THEN \E i \in 1..Len(tests) : InNetwork(ip_str, tests[i])
        ELSE \A i \in 1..Len(internals) : ~InNetwork(ip_str, internals[i])

is_external_ip(ip_str, network_config) ==
    LET tests == test_external_networks(network_config)
        internals == internal_networks(network_config)
    IN  IF ~(ValidIPv4(ip_str) \/ ValidIPv6(ip_str)) THEN FALSE
        ELSE IF network_config.test_mode /\ tests # <<>>
            THEN \E i \in 1..Len(tests) : InNetwork(ip_str, tests[i])
        ELSE \A i \in 1..Len(internals) : ~InNetwork(ip_str, internals[i])

\* ------------------------------------------------------------------------
\* Anonymizing Log Sink
\* ------------------------------------------------------------------------
\* A text is a word, written by its stem and the number printed after the
\* stem (0: none), or an address, written by its fields as for the
\* classifier. A message is the sequence of its texts, one blank between two.
Text(stem, n) == [stem |-> stem, n |-> n, ip |-> <<>>]
Word(stem) == Text(stem, 0)
IpText(fields) == [stem |-> "", n |-> 0, ip |-> fields]
EmptyText == Word("")

NoAliases == [t \in {} |-> EmptyText]

\* LogAnonymizer.__init__
LogAnonymizer(enabled) ==
    [enabled |-> enabled,
     username_map |-> NoAliases, ip_map |-> NoAliases, session_map |-> NoAliases,
     user_counter |-> 0, ip_counter |-> 0, session_counter |-> 0]

\* what a call leaves: the anonymizer after it and the value returned
Aliased(self, out) == [self |-> self, out |-> out]

\* map[key] = value
Put(map, key, value) ==
    [x \in DOMAIN map \cup {key} |-> IF x = key THEN value ELSE map[x]]

\* anonymize_username that overlooks self.enabled
anonymize_username_Unguarded(self, username) ==
    IF username = EmptyText THEN Aliased(self, username)
    ELSE IF username \in DOMAIN self.username_map
        THEN Aliased(self, self.username_map[username])
    ELSE LET counter == self.user_counter + 1
         IN  Aliased([self EXCEPT !.user_counter = counter,
                                  !.username_map = Put(@, username, Text("User-", counter))],
                     Text("User-", counter))

\* f"User-{self.user_counter:03d}" for a name not seen before
anonymize_username(self, username) ==
    IF ~self.enabled \/ username = EmptyText THEN Aliased(self, username)
    ELSE IF username \in DOMAIN self.username_map
        THEN Aliased(self, self.username_map[username])
    ELSE LET counter == self.user_counter + 1
         IN  Aliased([self EXCEPT !.user_counter = counter,
                                  !.username_map = Put(@, username, Text("User-", counter))],
                     Text("User-", counter))

\* the IPv4 ranges ipaddress counts as private
PrivateNetworks ==
    << Cidr(<<0, 0, 0, 0>>, 8), Cidr(<<10, 0, 0, 0>>, 8), Cidr(<<127, 0, 0, 0>>, 8),
       Cidr(<<169, 254, 0, 0>>, 16), Cidr(<<172, 16, 0, 0>>, 12),
       Cidr(<<192, 0, 0, 0>>, 29), Cidr(<<192, 0, 0, 170>>, 31),
       Cidr(<<192, 0, 2, 0>>, 24), Cidr(<<192, 168, 0, 0>>, 16),
       Cidr(<<198, 18, 0, 0>>, 15), Cidr(<<198, 51, 100, 0>>, 24),
       Cidr(<<203, 0, 113, 0>>, 24), Cidr(<<240, 0, 0, 0>>, 4),
       Cidr(<<255, 255, 255, 255>>, 32) >>

\* ip.is_private of a parsed address; "::1" is the loopback address
is_private(ip) ==
    IF ValidIPv4(ip)
    THEN \E i \in 1..Len(PrivateNetworks) : InNetwork(ip, PrivateNetworks[i])
    ELSE ip = IpV6Loopback

\* the alias anonymize_ip makes for a private address, numbered n
PrivateAlias(ip, n) ==
    IF ValidIPv4(ip)
    THEN IF ip[1] = 192 /\ ip[2] = 168 THEN Text("192.168.xxx.", n)
         ELSE IF ip[1] = 10 THEN Text("10.xxx.xxx.", n)
         ELSE IF ip[1] = 172 THEN Text("172.16.xxx.", n)
         ELSE Text("Private-IP-", n)
    ELSE Text("Private-IPv6-", n)

\* anonymize_ip that numbers a private address by ip_counter + 1 and leaves
\* the counter alone
anonymize_ip_ByCounter(self, ip_str) ==
    IF ~self.enabled \/ ip_str = EmptyText THEN Aliased(self, ip_str)
    ELSE IF ip_str \in DOMAIN self.ip_map
        THEN Aliased(self, self.ip_map[ip_str])
    ELSE IF (ValidIPv4(ip_str.ip) \/ ValidIPv6(ip_str.ip)) /\ is_private(ip_str.ip)
        THEN LET anonymized == PrivateAlias(ip_str.ip, self.ip_counter + 1)
             IN  Aliased([self EXCEPT !.ip_map = Put(@, ip_str, anonymized)],
                         anonymized)
    ELSE LET counter == self.ip_counter + 1
             anonymized == IF ValidIPv4(ip_str.ip) \/ ValidIPv6(ip_str.ip)
                           THEN Text("External-IP-", counter)
                           ELSE Text("IP-", counter)
         IN  Aliased([self EXCEPT !.ip_counter = counter,
                                  !.ip_map = Put(@, ip_str, anonymized)],
                     anonymized)

\* anonymize_ip: a private address is numbered by len(ip_map) + 1, a public
\* one and a text that is no address by the counter
anonymize_ip(self, ip_str) ==
    IF ~self.enabled \/ ip_str = EmptyText THEN Aliased(self, ip_str)
    ELSE IF ip_str \in DOMAIN self.ip_map
        THEN Aliased(self, self.ip_map[ip_str])
    ELSE IF (ValidIPv4(ip_str.ip) \/ ValidIPv6(ip_str.ip)) /\ is_private(ip_str.ip)
        THEN LET anonymized == PrivateAlias(ip_str.ip,
                                            Cardinality(DOMAIN self.ip_map) + 1)
             IN  Aliased([self EXCEPT !.ip_map = Put(@, ip_str, anonymized)],
                         anonymized)
    ELSE LET counter == self.ip_counter + 1
             anonymized == IF ValidIPv4(ip_str.ip) \/ ValidIPv6(ip_str.ip)
                           THEN Text("External-IP-", counter)
                           ELSE Text("IP-", counter)
         IN  Aliased([self EXCEPT !.ip_counter = counter,
                                  !.ip_map = Put(@, ip_str, anonymized)],
                     anonymized)

\* f"Session-{self.session_counter:03d}" for an id not seen before
anonymize_session(self, session_id) ==
    IF ~self.enabled \/ session_id = EmptyText THEN Aliased(self, session_id)
    ELSE IF session_id \in DOMAIN self.session_map
        THEN Aliased(self, self.session_map[session_id])
    ELSE LET counter == self.session_counter + 1
         IN  Aliased([self EXCEPT !.session_counter = counter,
                                  !.session_map = Put(@, session_id, Text("Session-", counter))],
                     Text("Session-", counter))

\* "[API-KEY-" + the first eight hex digits of the key's MD5 + "]", the
\* digits written by the key they are computed from
anonymize_api_key(self, api_key) ==
    IF ~self.enabled \/ api_key = EmptyText THEN Aliased(self, api_key)
    ELSE Aliased(self, Word("[API-KEY-md5(" \o api_key.stem \o ")]"))

\* re.IGNORECASE on the words the patterns spell
Fold(stem) ==
    CASE stem = "User" -> "user"
      [] stem = "User:" -> "user:"
      [] stem = "Set" -> "set"
      [] stem = "For" -> "for"
      [] stem = "Session" -> "session"
      [] stem = "API" -> "api"
      [] stem = "Token:" -> "token:"
      [] OTHER -> stem

\* the patterns by the words that precede their group: "user X", "User: X",
\* "username: X", "Name": "X" (a JSON field), "Set user X", "for user X"
username_patterns ==
    << <<"user">>, <<"user:">>, <<"username:">>, <<"\"name\":">>,
       <<"set", "user">>, <<"for", "user">> >>
\* "session X" and "Session X"
session_patterns == << <<"session">>, <<"session">> >>
\* "api key: X" and "Token: X"
api_key_patterns == << <<"api", "key:">>, <<"token:">> >>

\* words that hold a character outside [A-Za-z0-9_.-]
OtherWords == {"", "User:", "user:", "username:", "key:", "Token:", "token:",
               "\"Name\":", "\"name\":"}

\* the group of the patterns of a kind takes the whole text: [A-Za-z0-9_.-]+
\* for a username (an IPv4-like text too), [a-zA-Z0-9-]+ for a session id,
\* [a-zA-Z0-9]+ for a key. A text the group would take in part only is not
\* among the messages of the model.
Covers(kind, text) ==
    CASE kind = "username" ->
             IF text.ip # <<>> THEN \A i \in 1..Len(text.ip) : text.ip[i] >= 0
             ELSE text.stem \notin OtherWords
      [] kind = "session" -> text.ip = <<>> /\ text.stem \notin OtherWords
      [] kind = "api_key" -> text.ip = <<>> /\ text.stem \notin OtherWords

\* the alias call the replacement function of a kind makes
AliasOf(kind, self, text) ==
    CASE kind = "username" -> anonymize_username(self, text)
      [] kind = "session" -> anonymize_session(self, text)
      [] kind = "api_key" -> anonymize_api_key(self, text)

\* the words of the pattern are at message[i..], case ignored
KeywordsAt(words, message, i) ==
    \A j \in 1..Len(words) :
        /\ message[i + j - 1].ip = <<>>
        /\ message[i + j - 1].n = 0
        /\ Fold(message[i + j - 1].stem) = words[j]

RECURSIVE Substitute(_, _, _, _, _)
\* re.sub(pattern, replace, message) from text i on: the matches from left
\* to right, none overlapping another; a match is replaced by
\* match.group(0).replace(group 1, its alias)
Substitute(kind, words, message, i, self) ==
    LET k == Len(words)
    IN  IF i + k > Len(message) THEN Aliased(self, message)
        ELSE IF KeywordsAt(words, message, i) /\ Covers(kind, message[i + k])
        THEN LET group == message[i + k]
                 r == AliasOf(kind, self, group)
                 replaced == [j \in 1..Len(message) |->
                                 IF j \in i..(i + k) /\ message[j] = group
                                 THEN r.out ELSE message[j]]
             IN  Substitute(kind, words, replaced, i + k + 1, r.self)
        ELSE Substitute(kind, words, message, i + 1, self)

RECURSIVE SubstituteAll(_, _, _, _, _)
\* for pattern in patterns: anonymized = re.sub(pattern, ..., anonymized)
SubstituteAll(kind, patterns, p, message, self) ==
    IF p > Len(patterns) THEN Aliased(self, message)
    ELSE LET r == Substitute(kind, patterns[p], message, 1, self)
         IN  SubstituteAll(kind, patterns, p + 1, r.out, r.self)

RECURSIVE SubstituteIps(_, _, _)
\* the two ip_patterns: every IPv4 address of the message is replaced by
\* anonymize_ip of it, from left to right; the IPv6 pattern wants eight
\* groups, which "::1" has not
SubstituteIps(message, i, self) ==
    IF i > Len(message) THEN Aliased(self, message)
    ELSE IF ValidIPv4(message[i].ip)
    THEN LET r == anonymize_ip(self, message[i])
         IN  SubstituteIps([message EXCEPT ![i] = r.out], i + 1, r.self)
    ELSE SubstituteIps(message, i + 1, self)

\* anonymize_message: the username patterns, the IP patterns, the session
\* patterns and the key patterns, each applied to what the one before left
anonymize_message(self, message) ==
    IF ~self.enabled THEN Aliased(self, message)
    ELSE LET users == SubstituteAll("username", username_patterns, 1, message, self)
             ips == SubstituteIps(users.out, 1, users.self)
             ids == SubstituteAll("session", session_patterns, 1, ips.out, ips.self)
         IN  SubstituteAll("api_key", api_key_patterns, 1, ids.out, ids.self)

\* ------------------------------------------------------------------------
\* Inputs of the model
\* ------------------------------------------------------------------------
Ip8888 == <<8, 8, 8, 8>>
Ip1111 == <<1, 1, 1, 1>>
IpLan == <<192, 168, 1, 50>>

\* the session objects GET /Sessions may list
SessionPool ==
    { \* u1 from outside, direct play, declared 20 Mbps
      Session("u1", <<Ip8888, <<51000>>>>, FALSE,
              NowPlaying(TRUE, 20000000, <<>>), NoTranscoding),
      \* u2 from outside, transcoding at 95 Mbps
      Session("u2", <<Ip1111, <<443>>>>, FALSE,
              NowPlaying(FALSE, 0, <<Audio, Video(1080)>>), Transcoding(95000000)),
      \* u1 on the LAN, nothing declared, a 4K video stream
      Session("u1", <<IpLan, <<8096>>>>, FALSE,
              NowPlaying(FALSE, 0, <<Audio, Video(2160)>>), NoTranscoding),
      \* no user id, from outside, transcoding info without a bitrate
      Session("", <<Ip8888, <<51001>>>>, FALSE,
              NowPlaying(TRUE, 8000000, <<>>), Transcoding(0)),
      \* u1 from "2001:db8::1", an IPv6 endpoint
      Session("u1", <<<<2001>>, <<-1>>, <<-1>>, <<1>>>>, FALSE,
              NowPlaying(TRUE, 20000000, <<>>), NoTranscoding),
      \* u2 from outside, paused
      Session("u2", <<Ip1111, <<444>>>>, TRUE,
              NowPlaying(TRUE, 20000000, <<>>), NoTranscoding),
      \* u2 without a remote endpoint
      Session("u2", <<>>, FALSE,
              NowPlaying(TRUE, 20000000, <<>>), NoTranscoding) }

RECURSIVE SeqsUpTo(_, _)
\* the sequences over S of length at most n
SeqsUpTo(S, n) ==
    IF n = 0 THEN {<<>>}
    ELSE LET shorter == SeqsUpTo(S, n - 1)
         IN  shorter \cup {Append(q, x) : q \in shorter, x \in S}

\* an answer of GET /Sessions: ok = FALSE is a transport error or a status
\* other than 200
SessionResponses ==
    {[ok |-> TRUE, body |-> b] : b \in SeqsUpTo(SessionPool, MaxSessions)}
    \cup {[ok |-> FALSE, body |-> <<>>]}

\* the profile the server holds for each user id
ServerProfile(user_id) ==
    IF user_id = "u1" THEN Profile(TRUE, FALSE, TRUE)
    ELSE Profile(FALSE, FALSE, FALSE)

Bandwidth(minimum, maximum, reserved, total) ==
    [min_per_user |-> Rat(minimum), max_per_user |-> Rat(maximum),
     reserved_bandwidth |-> Rat(reserved), total_upload_mbps |-> Rat(total)]

\* bandwidth sections of config.yml, valid and invalid ones
BandwidthPool ==
    { Bandwidth(2, 50, 10, 100),
      Bandwidth(-2, 50, 10, 100),
      Bandwidth(50, 50, 10, 100),
      Bandwidth(2, 50, 10, 0) }

LanRanges == <<Cidr(<<192, 168, 0, 0>>, 16), Cidr(<<10, 0, 0, 0>>, 8)>>

\* network sections of config.yml
NetworkPool ==
    { [internal_ranges |-> LanRanges, test_mode |-> FALSE,
       test_external_ranges |-> <<>>] }

\* outcomes of one set_user_bandwidth_limit call: written (204), the policy
\* could not be read, the write was answered with another status, the write
\* request raised (no connection, timeout)
SetterOutcomes == {"ok", "no_policy", "write_failed", "transport_error"}

\* ------------------------------------------------------------------------
\* State
\* ------------------------------------------------------------------------
VARIABLES
    pc,                 \* where the program is
    bandwidth,          \* config.bandwidth
    algorithm,          \* config.bandwidth.algorithm
    network,            \* config.network
    dry_run,            \* config.daemon.dry_run
    anonymize_logs,     \* config.daemon.anonymize_logs
    save_anonymization_map, \* config.daemon.save_anonymization_map
    interval_is_int,    \* config.daemon.update_interval is an int
    running,            \* JellyDemon.running
    user_cache,         \* JellyfinClient._user_cache
    sessions,           \* the active sessions the last listing returned
    current_usage,      \* result of get_current_bandwidth_usage
    external_streamers, \* result of get_external_streamers
    available_bandwidth,\* the budget of this calculation
    manager_called,     \* BandwidthManager.calculate_limits was called
    strategy,           \* the strategy whose calculate_limits ran, or "none"
    raised,             \* the calculation ended in an exception
    user_limits,        \* the mapping the calculation returned
    setter_calls,       \* set_user_bandwidth_limit calls of this cycle
    dry_logged,         \* users of this cycle's [DRY RUN] lines
    set_logged,         \* users of this cycle's "Set user ... bandwidth limit" lines
    failed_listings,    \* the listings of this cycle that failed
    signalled,          \* a SIGTERM or SIGINT has been delivered
    ticks,              \* iterations the sleep loop has left
    mapping_saves,      \* calls of LogAnonymizer.save_mapping made by run
    exit_code,          \* the value run returns
    anonymizer,         \* the LogAnonymizer the alias calls are made on
    alias_call,         \* the last call made on it: operation, argument, result
    alias_calls,        \* the number of calls made on it
    session_data,       \* argument of a direct _estimate_required_bandwidth call
    estimate,           \* what that call returned
    ip_str,             \* argument of a direct is_external_ip call
    is_external         \* what that call returned

vars == <<pc, bandwidth, algorithm, network, dry_run, anonymize_logs,
          save_anonymization_map, interval_is_int, running, user_cache,
          sessions, current_usage, external_streamers, available_bandwidth,
          manager_called, strategy, raised, user_limits, setter_calls,
          dry_logged, set_logged, failed_listings, signalled, ticks,
          mapping_saves, exit_code, anonymizer, alias_call, alias_calls,
          session_data, estimate, ip_str, is_external>>

config_vars == <<bandwidth, algorithm, network, dry_run, anonymize_logs,
                 save_anonymization_map, interval_is_int>>
cycle_vars == <<sessions, current_usage, external_streamers,
                available_bandwidth, manager_called, strategy, raised,
                user_limits, setter_calls, dry_logged, set_logged,
                failed_listings>>

\* what run leaves behind
exit_vars == <<mapping_saves, exit_code>>

\* the log sink
sink_vars == <<anonymizer, alias_call, alias_calls>>

direct_vars == <<session_data, estimate, ip_str, is_external>>

NoSession == Session("", <<>>, FALSE, NoNowPlaying, NoTranscoding)

\* no direct call of the estimator or of the classifier is made
DirectCleared ==
    /\ session_data = NoSession
    /\ estimate = Rat(0)
    /\ ip_str = <<>>
    /\ is_external = FALSE

NoStreamers == [u \in {} |-> Streamer(<<>>, Session("", <<>>, FALSE, NoNowPlaying, NoTranscoding), NotFound)]
NoCalls == [u \in {} |-> [limit |-> Rat(0), outcome |-> "ok"]]
NoCache == [u \in {} |-> NotFound]

\* the locals of a cycle before it has computed anything
CycleCleared ==
    /\ sessions = <<>>
    /\ current_usage = Rat(0)
    /\ external_streamers = NoStreamers
    /\ available_bandwidth = Rat(0)
    /\ manager_called = FALSE
    /\ strategy = "none"
    /\ raised = FALSE
    /\ user_limits = EmptyMap
    /\ setter_calls = NoCalls
    /\ dry_logged = {}
    /\ set_logged = {}
    /\ failed_listings = {}

\* DaemonConfig's defaults of the two anonymization switches, and an
\* update_interval of the declared type
LogDefaults ==
    /\ anonymize_logs = TRUE
    /\ save_anonymization_map = TRUE
    /\ interval_is_int = TRUE

\* run has not returned and has saved nothing
NotReturned ==
    /\ mapping_saves = 0
    /\ exit_code = 0

NoAliasCall == [op |-> "none", arg |-> <<>>, result |-> <<>>]

\* setup_logging: LogAnonymizer(enabled=config.daemon.anonymize_logs), on
\* which no call has been made
SinkCleared ==
    /\ anonymizer = LogAnonymizer(anonymize_logs)
    /\ alias_call = NoAliasCall
    /\ alias_calls = 0

Init ==
    /\ pc = "new"
    /\ bandwidth \in BandwidthPool
    /\ algorithm \in KnownAlgorithms
    /\ network \in NetworkPool
    /\ dry_run \in BOOLEAN
    /\ running = FALSE
    /\ signalled = FALSE
    /\ LogDefaults
    /\ NotReturned
    /\ SinkCleared
    /\ user_cache = NoCache
    /\ ticks = 0
    /\ CycleCleared
    /\ DirectCleared

\* ------------------------------------------------------------------------
\* Startup
\* ------------------------------------------------------------------------
\* Config._validate_config, the bandwidth section
validate_config(bw) ==
    /\ ~RLe(bw.max_per_user, bw.min_per_user)
    /\ ~RLe(bw.total_upload_mbps, Rat(0))

\* JellyDemon.__init__: load the configuration, install the signal handlers
Construct ==
    /\ pc = "new"
    /\ pc' = IF validate_config(bandwidth) THEN "constructed" ELSE "fatal"
    /\ running' = FALSE
    /\ UNCHANGED <<direct_vars, sink_vars, exit_vars, signalled, config_vars, user_cache, cycle_vars, ticks>>

\* JellyDemon._signal_handler, at any moment once the handlers are installed
SignalHandler ==
    /\ pc \notin {"new", "fatal", "exited", "direct"}
    /\ running' = FALSE
    /\ signalled' = TRUE
    /\ UNCHANGED <<direct_vars, sink_vars, exit_vars, pc, config_vars, user_cache, cycle_vars, ticks>>

\* JellyDemon.run up to the loop: the connectivity check, then running = True;
\* when the check fails run returns 1 before it has entered the try statement
RunStart ==
    /\ pc = "constructed"
    /\ \E connected \in BOOLEAN :
          IF connected
          THEN pc' = "loop" /\ running' = TRUE /\ exit_code' = exit_code
          ELSE pc' = "exited" /\ UNCHANGED running /\ exit_code' = 1
    /\ UNCHANGED <<direct_vars, sink_vars, mapping_saves, signalled, config_vars, user_cache, cycle_vars, ticks>>

\* while self.running
LoopTest ==
    /\ pc = "loop"
    /\ pc' = IF running THEN "usage" ELSE "finally"
    /\ UNCHANGED <<direct_vars, sink_vars, exit_vars, signalled, config_vars, running, user_cache, cycle_vars, ticks>>

\* ------------------------------------------------------------------------
\* One cycle
\* ------------------------------------------------------------------------
\* JellyfinClient.get_active_sessions on a given answer of the server
get_active_sessions(response) ==
    IF response.ok
    THEN SelectSeq(response.body,
                   LAMBDA s : s.NowPlayingItem.present /\ s.IsPaused = FALSE)
    ELSE <<>>

\* every outcome of one get_active_sessions call: whether the request was
\* answered with status 200, and the list the call returns
ListingOutcomes ==
    {[ok |-> r.ok, active |-> get_active_sessions(r)] : r \in SessionResponses}

\* UsageOfSession that falls back to the declared bitrate when the
\* transcoding info has no positive bitrate
UsageOfSession_FallThrough(session) ==
    LET transcoding_info == session.TranscodingInfo
        now_playing == session.NowPlayingItem
    IN  IF transcoding_info.present /\ transcoding_info.Bitrate > 0
        THEN ToMbps(transcoding_info.Bitrate)
        ELSE IF now_playing.present /\ now_playing.HasBitrate
             THEN ToMbps(now_playing.Bitrate)
             ELSE ToMbps(5000000)

\* what get_current_bandwidth_usage adds to total_usage for one session
UsageOfSession(session) ==
    LET transcoding_info == session.TranscodingInfo
        now_playing == session.NowPlayingItem
    IN  IF transcoding_info.present
        THEN IF transcoding_info.Bitrate > 0
             THEN ToMbps(transcoding_info.Bitrate)
             ELSE Rat(0)
        ELSE IF now_playing.present /\ now_playing.HasBitrate
             THEN ToMbps(now_playing.Bitrate)
             ELSE ToMbps(5000000)

RECURSIVE TotalUsage(_)
TotalUsage(ss) ==
    IF ss = <<>> THEN Rat(0)
    ELSE RAdd(UsageOfSession(Head(ss)), TotalUsage(Tail(ss)))

\* get_current_bandwidth_usage up to its last statement: the listing and
\* the loop over it
GetCurrentBandwidthUsage ==
    /\ pc = "usage"
    /\ \E listing \in ListingOutcomes :
          /\ sessions' = listing.active
          /\ current_usage' = TotalUsage(listing.active)
          /\ failed_listings' = IF listing.ok THEN failed_listings
                                 ELSE failed_listings \cup {"usage"}
    /\ pc' = "usage_return"
    /\ UNCHANGED <<direct_vars, sink_vars, exit_vars, signalled, config_vars, running, user_cache, external_streamers,
                   available_bandwidth, manager_called, strategy, raised,
                   user_limits, setter_calls, dry_logged, set_logged,
                   ticks>>

\* return total_usage: the local list of sessions is gone
ReturnUsage ==
    /\ pc = "usage_return"
    /\ pc' = "external"
    /\ sessions' = <<>>
    /\ UNCHANGED <<direct_vars, sink_vars, exit_vars, signalled, config_vars, running, user_cache, current_usage,
                   external_streamers, available_bandwidth, manager_called,
                   strategy, raised, user_limits, setter_calls, dry_logged,
                   set_logged, failed_listings, ticks>>

\* JellyfinClient.get_user_info: the cached profile, else the server's
\* answer, cached when the request succeeded (answered = TRUE)
get_user_info(user_id, cache, answered) ==
    IF user_id \in DOMAIN cache
        THEN [info |-> cache[user_id], cache |-> cache]
    ELSE IF answered
        THEN [info |-> ServerProfile(user_id),
              cache |-> [u \in DOMAIN cache \cup {user_id} |->
                            IF u = user_id THEN ServerProfile(user_id)
                            ELSE cache[u]]]
    ELSE [info |-> NotFound, cache |-> cache]

\* IsExternalSession without the classifier
IsExternalSession_Unclassified(session, network_config) ==
    /\ session.UserId # ""
    /\ session.RemoteEndPoint # <<>>

\* the test of the loop body of get_external_streamers
IsExternalSession(session, network_config) ==
    /\ session.UserId # ""
    /\ session.RemoteEndPoint # <<>>
    /\ is_external_ip(Head(session.RemoteEndPoint), network_config)

RECURSIVE CollectExternal(_, _, _, _, _)
\* the loop of get_external_streamers from session i on: every outcome it
\* can have, a profile request that is made being answered or not
CollectExternal(ss, i, network_config, acc, cache) ==
    IF i > Len(ss) THEN {[streamers |-> acc, cache |-> cache]}
    ELSE IF IsExternalSession(ss[i], network_config)
    THEN LET user_id == ss[i].UserId
             client_ip == Head(ss[i].RemoteEndPoint)
         IN  UNION {
                 LET entry == Streamer(client_ip, ss[i], looked.info)
                 IN  CollectExternal(ss, i + 1, network_config,
                         [u \in DOMAIN acc \cup {user_id} |->
                             IF u = user_id THEN entry ELSE acc[u]],
                         looked.cache) :
                 looked \in {get_user_info(user_id, cache, answered) :
                                answered \in BOOLEAN}}
    ELSE CollectExternal(ss, i + 1, network_config, acc, cache)

\* get_external_streamers on a list of active sessions: every outcome the
\* profile requests can have
ExternalStreamerOutcomes(active, network_config, cache) ==
    CollectExternal(active, 1, network_config, NoStreamers, cache)

\* get_external_streamers: its own listing, then the loop over it
GetExternalStreamers ==
    /\ pc = "external"
    /\ \E listing \in ListingOutcomes :
          \E r \in ExternalStreamerOutcomes(listing.active, network, user_cache) :
              /\ external_streamers' = r.streamers
              /\ user_cache' = r.cache
              /\ failed_listings' = IF listing.ok THEN failed_listings
                                     ELSE failed_listings \cup {"external"}
    /\ pc' = "apply"
    /\ UNCHANGED <<direct_vars, sink_vars, exit_vars, signalled, config_vars, running, sessions, current_usage,
                   available_bandwidth, manager_called, strategy, raised,
                   user_limits, setter_calls, dry_logged, set_logged,
                   ticks>>

\* AvailableBandwidth whose floor is one min_per_user, whatever the count
AvailableBandwidth_OneFloor(bw, usage, streamers) ==
    LET available == RSub(RSub(bw.total_upload_mbps, usage), bw.reserved_bandwidth)
    IN  IF RLt(available, Rat(0)) THEN bw.min_per_user ELSE available

\* lines 130-135 of calculate_and_apply_limits
AvailableBandwidth(bw, usage, streamers) ==
    LET available == RSub(RSub(bw.total_upload_mbps, usage), bw.reserved_bandwidth)
    IN  IF RLt(available, Rat(0))
        THEN RMul(bw.min_per_user, Rat(Cardinality(DOMAIN streamers)))
        ELSE available

\* ApplyLimits that overlooks the dry-run flag
ApplyLimits_IgnoreDryRun(limits, dry, outcome) ==
    [setter_calls |-> [u \in DOMAIN limits |->
                          [limit |-> limits[u], outcome |-> outcome[u]]],
     dry_logged |-> {},
     set_logged |-> DOMAIN limits]

\* ApplyLimits whose loop ends at the first call that fails
ApplyLimits_StopAtFailure(limits, dry, outcome) ==
    IF dry
    THEN [setter_calls |-> NoCalls, dry_logged |-> DOMAIN limits,
          set_logged |-> {}]
    ELSE LET failed == {u \in DOMAIN limits : outcome[u] # "ok"}
             reached == IF failed = {} THEN DOMAIN limits
                        ELSE (DOMAIN limits \ failed)
                             \cup {CHOOSE u \in failed : TRUE}
         IN  [setter_calls |-> [u \in reached |->
                                   [limit |-> limits[u], outcome |-> outcome[u]]],
              dry_logged |-> {},
              set_logged |-> reached]

\* the loop over user_limits of calculate_and_apply_limits: the calls of
\* set_user_bandwidth_limit made, outcome[u] being what the call for u ends
\* in, the users of the [DRY RUN] lines, and the users of the lines
\* "Set user ... bandwidth limit to ...", which follow every call
ApplyLimits(limits, dry, outcome) ==
    IF dry
    THEN [setter_calls |-> NoCalls, dry_logged |-> DOMAIN limits,
          set_logged |-> {}]
    ELSE [setter_calls |-> [u \in DOMAIN limits |->
                               [limit |-> limits[u], outcome |-> outcome[u]]],
          dry_logged |-> {},
          set_logged |-> DOMAIN limits]

CalculateAndApplyLimits ==
    /\ pc = "apply"
    /\ pc' = "cycle_done"
    /\ IF DOMAIN external_streamers = {}
       THEN UNCHANGED <<available_bandwidth, manager_called, strategy, raised,
                        user_limits, setter_calls, dry_logged, set_logged>>
       ELSE LET available == AvailableBandwidth(bandwidth, current_usage,
                                                external_streamers)
                r == BandwidthManager_calculate_limits(
                         create_algorithm(algorithm), external_streamers,
                         available, bandwidth)
            IN  /\ available_bandwidth' = available
                /\ manager_called' = TRUE
                /\ strategy' = IF r.invoked THEN create_algorithm(algorithm)
                                            ELSE "none"
                /\ raised' = r.raised
                /\ user_limits' = r.limits
                /\ \E outcome \in [DOMAIN r.limits -> SetterOutcomes] :
                      LET applied == ApplyLimits(r.limits, dry_run, outcome)
                      IN  /\ setter_calls' = applied.setter_calls
                          /\ dry_logged' = applied.dry_logged
                          /\ set_logged' = applied.set_logged
    /\ UNCHANGED <<direct_vars, sink_vars, exit_vars, signalled, config_vars, running, user_cache, sessions, current_usage,
                   external_streamers, failed_listings, ticks>>

\* EndCycle that goes on with the next cycle at once
EndCycle_NoSleep ==
    /\ pc = "cycle_done"
    /\ interval_is_int
    /\ pc' = "usage"
    /\ ticks' = 0
    /\ sessions' = <<>>
    /\ current_usage' = Rat(0)
    /\ external_streamers' = NoStreamers
    /\ available_bandwidth' = Rat(0)
    /\ manager_called' = FALSE
    /\ strategy' = "none"
    /\ raised' = FALSE
    /\ user_limits' = EmptyMap
    /\ setter_calls' = NoCalls
    /\ dry_logged' = {}
    /\ set_logged' = {}
    /\ failed_listings' = {}
    /\ UNCHANGED <<direct_vars, sink_vars, exit_vars, signalled, config_vars, running, user_cache>>

\* run_single_cycle returns: its locals are gone, the sleep loop starts
EndCycle ==
    /\ pc = "cycle_done"
    /\ interval_is_int
    /\ pc' = "sleep"
    /\ ticks' = UpdateInterval
    /\ sessions' = <<>>
    /\ current_usage' = Rat(0)
    /\ external_streamers' = NoStreamers
    /\ available_bandwidth' = Rat(0)
    /\ manager_called' = FALSE
    /\ strategy' = "none"
    /\ raised' = FALSE
    /\ user_limits' = EmptyMap
    /\ setter_calls' = NoCalls
    /\ dry_logged' = {}
    /\ set_logged' = {}
    /\ failed_listings' = {}
    /\ UNCHANGED <<direct_vars, sink_vars, exit_vars, signalled, config_vars, running, user_cache>>

\* SleepTest that does not look at self.running
SleepTest_NoBreak ==
    /\ pc = "sleep"
    /\ IF ticks = 0
       THEN pc' = "loop" /\ ticks' = 0
       ELSE pc' = "tick" /\ ticks' = ticks
    /\ UNCHANGED <<direct_vars, sink_vars, exit_vars, signalled, config_vars, running, user_cache, cycle_vars>>

\* the head of one iteration of: for _ in range(update_interval), up to
\* time.sleep(1); the loop is left when its range is used up and, by break,
\* when self.running is off
SleepTest ==
    /\ pc = "sleep"
    /\ IF ticks = 0 \/ ~running
       THEN pc' = "loop" /\ ticks' = 0
       ELSE pc' = "tick" /\ ticks' = ticks
    /\ UNCHANGED <<direct_vars, sink_vars, exit_vars, signalled, config_vars, running, user_cache, cycle_vars>>

\* time.sleep(1) returns
SleepTick ==
    /\ pc = "tick"
    /\ pc' = "sleep"
    /\ ticks' = ticks - 1
    /\ UNCHANGED <<direct_vars, sink_vars, exit_vars, signalled, config_vars, running, user_cache, cycle_vars>>

\* an exception leaves the try body of run between the cycle and the sleep
\* (range() on an update_interval that is no integer): the except clause
\* makes 1 the value to return, the locals of the cycle are gone
UnexpectedError ==
    /\ pc = "cycle_done"
    /\ ~interval_is_int
    /\ pc' = "finally"
    /\ exit_code' = 1
    /\ ticks' = 0
    /\ sessions' = <<>>
    /\ current_usage' = Rat(0)
    /\ external_streamers' = NoStreamers
    /\ available_bandwidth' = Rat(0)
    /\ manager_called' = FALSE
    /\ strategy' = "none"
    /\ raised' = FALSE
    /\ user_limits' = EmptyMap
    /\ setter_calls' = NoCalls
    /\ dry_logged' = {}
    /\ set_logged' = {}
    /\ failed_listings' = {}
    /\ UNCHANGED <<direct_vars, sink_vars, mapping_saves, signalled, config_vars, running, user_cache>>

\* Shutdown that restores the users' original limits
Shutdown_Restore ==
    /\ pc = "finally"
    /\ pc' = "exited"
    /\ mapping_saves' = IF anonymize_logs /\ save_anonymization_map
                        THEN mapping_saves + 1 ELSE mapping_saves
    /\ setter_calls' = [u \in DOMAIN user_cache |->
                           [limit |-> Rat(0), outcome |-> "ok"]]
    /\ UNCHANGED <<direct_vars, sink_vars, exit_code, signalled, config_vars, running,
                   user_cache, sessions, current_usage, external_streamers,
                   available_bandwidth, manager_called, strategy, raised,
                   user_limits, dry_logged, set_logged, failed_listings, ticks>>

\* the finally clause of run: the mapping is saved when both switches are
\* on (setup_logging always stores the anonymizer in the logger); no user's
\* limit is touched; then run returns
Shutdown ==
    /\ pc = "finally"
    /\ pc' = "exited"
    /\ mapping_saves' = IF anonymize_logs /\ save_anonymization_map
                        THEN mapping_saves + 1 ELSE mapping_saves
    /\ UNCHANGED <<direct_vars, sink_vars, exit_code, signalled, config_vars, running,
                   user_cache, cycle_vars, ticks>>

Next ==
    \/ Construct
    \/ SignalHandler
    \/ RunStart
    \/ LoopTest
    \/ GetCurrentBandwidthUsage
    \/ ReturnUsage
    \/ GetExternalStreamers
    \/ CalculateAndApplyLimits
    \/ EndCycle
    \/ SleepTest
    \/ SleepTick
    \/ Shutdown

Spec == Init /\ [][Next]_vars

\* the daemon under every setting of the two anonymization switches and
\* with an update_interval that is an int or not (it is not validated), the
\* bandwidth section being one valid configuration: 106 Mbps, of which a
\* usage of 95 leaves 1, less than min_per_user
InitRun ==
    /\ pc = "new"
    /\ bandwidth = Bandwidth(2, 50, 10, 106)
    /\ algorithm = "equal_split"
    /\ network \in NetworkPool
    /\ dry_run = FALSE
    /\ anonymize_logs \in BOOLEAN
    /\ save_anonymization_map \in BOOLEAN
    /\ interval_is_int \in BOOLEAN
    /\ running = FALSE
    /\ signalled = FALSE
    /\ NotReturned
    /\ SinkCleared
    /\ user_cache = NoCache
    /\ ticks = 0
    /\ CycleCleared
    /\ DirectCleared

\* the steps of the daemon, range(update_interval) raising included
NextRun ==
    \/ Next
    \/ UnexpectedError

SpecRun == InitRun /\ [][NextRun]_vars

\* ------------------------------------------------------------------------
\* The strategies called directly, on inputs drawn from bounded sets
\* ------------------------------------------------------------------------
UserName == <<"u1", "u2", "u3", "u4">>
AllocUsers == {UserName[i] : i \in 1..NumUsers}

Playing(bps) == Session("", <<>>, FALSE, NowPlaying(TRUE, bps, <<>>), NoTranscoding)

\* one external streamer: a profile and a session
StreamerPool ==
    { \* administrator, 20 Mbps declared
      Streamer(Ip8888, Playing(20000000), Profile(TRUE, FALSE, FALSE)),
      \* regular user, 20 Mbps declared
      Streamer(Ip8888, Playing(20000000), Profile(FALSE, FALSE, FALSE)),
      \* full library access, 8 Mbps declared
      Streamer(Ip8888, Playing(8000000), Profile(FALSE, FALSE, TRUE)),
      \* full library access but disabled, 6 Mbps declared
      Streamer(Ip8888, Playing(6000000), Profile(FALSE, TRUE, TRUE)),
      \* disabled administrator with full library access, a 720p stream
      Streamer(Ip8888,
               Session("", <<>>, FALSE,
                       NowPlaying(FALSE, 0, <<Audio, Video(720)>>), Transcoding(0)),
               Profile(TRUE, TRUE, TRUE)),
      \* the profile request failed
      Streamer(Ip8888, Playing(20000000), NotFound) }

AllocStreamers ==
    UNION {[D -> StreamerPool] : D \in SUBSET AllocUsers}

AllocBudgets == {Rat(-5), Rat(-1), Rat(0), Rat(1), <<5, 2>>, Rat(20), Rat(30), Rat(200)}

\* min_per_user and max_per_user as a caller may pass them, validated or not
AllocConfigs ==
    { Bandwidth(2, 50, 10, 100),
      Bandwidth(2, 10, 10, 100),
      Bandwidth(-2, 50, 10, 100),
      Bandwidth(10, 5, 10, 100) }

InitAlloc ==
    /\ pc = "direct"
    /\ bandwidth \in AllocConfigs
    /\ algorithm = "equal_split"
    /\ network \in NetworkPool
    /\ dry_run = FALSE
    /\ running = FALSE
    /\ signalled = FALSE
    /\ LogDefaults
    /\ NotReturned
    /\ SinkCleared
    /\ user_cache = NoCache
    /\ ticks = 0
    /\ sessions = <<>>
    /\ current_usage = Rat(0)
    /\ external_streamers \in AllocStreamers
    /\ available_bandwidth \in AllocBudgets
    /\ manager_called = FALSE
    /\ strategy = "none"
    /\ raised = FALSE
    /\ user_limits = EmptyMap
    /\ setter_calls = NoCalls
    /\ dry_logged = {}
    /\ set_logged = {}
    /\ failed_listings = {}
    /\ DirectCleared

\* algorithm.calculate_limits(external_streamers, available_bandwidth, config)
CallStrategy(name) ==
    /\ pc = "direct"
    /\ strategy = "none"
    /\ LET r == Algorithm_calculate_limits(name, external_streamers,
                                           available_bandwidth, bandwidth)
       IN  /\ strategy' = name
           /\ raised' = r.raised
           /\ user_limits' = r.limits
    /\ UNCHANGED <<direct_vars, sink_vars, exit_vars, signalled, pc, config_vars, running, user_cache, sessions,
                   current_usage, external_streamers, available_bandwidth,
                   manager_called, setter_calls, dry_logged, set_logged,
                   failed_listings, ticks>>

CallEqualSplit == CallStrategy("equal_split")
CallPriorityBased == CallStrategy("priority_based")
CallDemandBased == CallStrategy("demand_based")

NextAlloc ==
    \/ CallEqualSplit
    \/ CallPriorityBased
    \/ CallDemandBased

SpecAlloc == InitAlloc /\ [][NextAlloc]_vars

\* ------------------------------------------------------------------------
\* The Usage Estimator called directly
\* ------------------------------------------------------------------------
\* Height of a video stream; a stream without the key Height reads as 0
Heights == {0, 719, 720, 1079, 1080, 2159, 2160}

StreamPool == {Audio} \cup {Video(h) : h \in Heights}

\* NowPlayingItem: absent, or with a list of streams and no Bitrate key, a
\* Bitrate of 0 or one of 8 Mbps
NowPlayingPool ==
    {NoNowPlaying}
    \cup {NowPlaying(FALSE, 0, ms) : ms \in SeqsUpTo(StreamPool, MaxStreams)}
    \cup {NowPlaying(TRUE, b, ms) :
              b \in {0, 8000000}, ms \in SeqsUpTo(StreamPool, MaxStreams)}

\* TranscodingInfo: absent, without a positive Bitrate, or at 4 Mbps
TranscodingPool == {NoTranscoding, Transcoding(0), Transcoding(4000000)}

EstimateSessions ==
    {Session("u1", <<Ip8888, <<51000>>>>, FALSE, np, t) :
        np \in NowPlayingPool, t \in TranscodingPool}

InitEstimate ==
    /\ pc = "estimate"
    /\ bandwidth = Bandwidth(2, 50, 10, 100)
    /\ algorithm = "demand_based"
    /\ network \in NetworkPool
    /\ dry_run = FALSE
    /\ running = FALSE
    /\ signalled = FALSE
    /\ LogDefaults
    /\ NotReturned
    /\ SinkCleared
    /\ user_cache = NoCache
    /\ ticks = 0
    /\ CycleCleared
    /\ session_data \in EstimateSessions
    /\ estimate = Rat(0)
    /\ ip_str = <<>>
    /\ is_external = FALSE

\* self._estimate_required_bandwidth(session_data)
CallEstimate ==
    /\ pc = "estimate"
    /\ pc' = "estimated"
    /\ estimate' = estimate_required_bandwidth(session_data)
    /\ UNCHANGED <<sink_vars, exit_vars, config_vars, running, signalled, user_cache, cycle_vars,
                   ticks, session_data, ip_str, is_external>>

NextEstimate == CallEstimate

SpecEstimate == InitEstimate /\ [][NextEstimate]_vars

\* ------------------------------------------------------------------------
\* The Network Classifier called directly
\* ------------------------------------------------------------------------
\* entries of internal_ranges: two private ranges, "192.168.1.77/24" (host
\* bits set), "300.1.1.1/8" (no address) and "::1/128"
InternalRangePool ==
    { Cidr(<<192, 168, 0, 0>>, 16),
      Cidr(<<10, 0, 0, 0>>, 8),
      Cidr(<<192, 168, 1, 77>>, 24),
      Cidr(<<300, 1, 1, 1>>, 8),
      Cidr(IpV6Loopback, 128) }

\* entries of test_external_ranges: "8.8.8.8/32", a range inside the LAN
\* and "10.0.0.0/33" (no prefix length)
TestRangePool ==
    { Cidr(Ip8888, 32),
      Cidr(<<192, 168, 1, 0>>, 24),
      Cidr(<<10, 0, 0, 0>>, 33) }

ClassifyNetworks ==
    {[internal_ranges |-> i, test_mode |-> m, test_external_ranges |-> t] :
        i \in SeqsUpTo(InternalRangePool, MaxRanges),
        m \in BOOLEAN,
        t \in SeqsUpTo(TestRangePool, MaxRanges)}

\* addresses, and the texts "256.1.1.1", "1.2.3", "8.8.8.x", "abc", "2001"
\* and "8.8.8.8.8"
IpPool ==
    { IpLan, Ip8888, Ip1111, <<10, 1, 2, 3>>, <<192, 169, 0, 1>>, IpV6Loopback,
      <<256, 1, 1, 1>>, <<1, 2, 3>>, <<8, 8, 8, -1>>, <<-1>>, <<2001>>,
      <<8, 8, 8, 8, 8>> }

InitClassify ==
    /\ pc = "classify"
    /\ bandwidth = Bandwidth(2, 50, 10, 100)
    /\ algorithm = "equal_split"
    /\ network \in ClassifyNetworks
    /\ dry_run = FALSE
    /\ running = FALSE
    /\ signalled = FALSE
    /\ LogDefaults
    /\ NotReturned
    /\ SinkCleared
    /\ user_cache = NoCache
    /\ ticks = 0
    /\ CycleCleared
    /\ session_data = NoSession
    /\ estimate = Rat(0)
    /\ ip_str \in IpPool
    /\ is_external = FALSE

\* NetworkUtils(config.network).is_external_ip(ip_str)
CallIsExternalIp ==
    /\ pc = "classify"
    /\ pc' = "classified"
    /\ is_external' = is_external_ip(ip_str, network)
    /\ UNCHANGED <<sink_vars, exit_vars, config_vars, running, signalled, user_cache, cycle_vars,
                   ticks, session_data, estimate, ip_str>>

NextClassify == CallIsExternalIp

SpecClassify == InitClassify /\ [][NextClassify]_vars

\* ------------------------------------------------------------------------
\* get_external_streamers on a given list of active sessions
\* ------------------------------------------------------------------------
\* the RemoteEndPoint "::1", an IPv6 address without a port: split at its
\* colons it is "", "" and "1"
EndpointV6 == <<<<-1>>, <<-1>>, <<1>>>>
\* the RemoteEndPoint "[::1]:8096": "[", "", "1]" and "8096"
EndpointV6Port == <<<<-1>>, <<-1>>, <<-1>>, <<8096>>>>

OnAir(uid, endpoint) ==
    Session(uid, endpoint, FALSE, NowPlaying(TRUE, 20000000, <<>>), NoTranscoding)

\* active sessions by their endpoint: IPv4 with and without a port, on the
\* LAN, IPv6 without and with a port, "abc:80", no user id, no endpoint
EndpointSessions ==
    { OnAir("u1", <<Ip8888, <<51000>>>>),
      OnAir("u2", <<Ip1111>>),
      OnAir("u1", <<IpLan, <<8096>>>>),
      OnAir("u2", EndpointV6),
      OnAir("u1", EndpointV6Port),
      OnAir("u2", <<<<-1>>, <<80>>>>),
      OnAir("", <<Ip8888, <<51001>>>>),
      OnAir("u1", <<>>) }

\* network sections: the LAN ranges, and a list that holds "::1/128"
EndpointNetworks ==
    { [internal_ranges |-> LanRanges, test_mode |-> FALSE,
       test_external_ranges |-> <<>>],
      [internal_ranges |-> <<Cidr(<<192, 168, 0, 0>>, 16), Cidr(IpV6Loopback, 128)>>,
       test_mode |-> FALSE, test_external_ranges |-> <<>>] }

InitExternal ==
    /\ pc = "collect"
    /\ bandwidth = Bandwidth(2, 50, 10, 100)
    /\ algorithm = "equal_split"
    /\ network \in EndpointNetworks
    /\ dry_run = FALSE
    /\ running = FALSE
    /\ signalled = FALSE
    /\ LogDefaults
    /\ NotReturned
    /\ SinkCleared
    /\ user_cache = NoCache
    /\ ticks = 0
    /\ sessions \in SeqsUpTo(EndpointSessions, MaxSessions)
    /\ current_usage = Rat(0)
    /\ external_streamers = NoStreamers
    /\ available_bandwidth = Rat(0)
    /\ manager_called = FALSE
    /\ strategy = "none"
    /\ raised = FALSE
    /\ user_limits = EmptyMap
    /\ setter_calls = NoCalls
    /\ dry_logged = {}
    /\ set_logged = {}
    /\ failed_listings = {}
    /\ DirectCleared

\* get_external_streamers, the listing having returned sessions
CallGetExternalStreamers ==
    /\ pc = "collect"
    /\ pc' = "collected"
    /\ \E r \in ExternalStreamerOutcomes(sessions, network, user_cache) :
          /\ external_streamers' = r.streamers
          /\ user_cache' = r.cache
    /\ UNCHANGED <<direct_vars, sink_vars, exit_vars, signalled, config_vars, running, sessions,
                   current_usage, available_bandwidth, manager_called, strategy,
                   raised, user_limits, setter_calls, dry_logged, set_logged,
                   failed_listings, ticks>>

NextExternal == CallGetExternalStreamers

SpecExternal == InitExternal /\ [][NextExternal]_vars

\* ------------------------------------------------------------------------
\* The log sink called directly
\* ------------------------------------------------------------------------
\* the calls made on one anonymizer
MaxCalls == 3

\* usernames, and the empty string
UsernamePool == {Word("alice"), Word("bob"), EmptyText}

\* "192.168.1.5", "192.168.1.6", "10.0.0.7", "127.0.0.1", "8.8.8.8", "::1"
\* and "abc"
AddressPool ==
    { IpText(<<192, 168, 1, 5>>), IpText(<<192, 168, 1, 6>>),
      IpText(<<10, 0, 0, 7>>), IpText(<<127, 0, 0, 1>>), IpText(Ip8888),
      IpText(IpV6Loopback), Word("abc") }

SessionIdPool == {Word("abc-1"), Word("def-2")}

ApiKeyPool == {Word("sk123")}

\* log lines: "user alice", "user bob", "User: alice", "Set user alice",
\* "Set user bob", "for user alice", "User alice from 8.8.8.8", "Session
\* abc-1 for user bob from 192.168.1.5", "API key: sk123"
MessagePool ==
    { <<Word("user"), Word("alice")>>,
      <<Word("user"), Word("bob")>>,
      <<Word("User:"), Word("alice")>>,
      <<Word("Set"), Word("user"), Word("alice")>>,
      <<Word("Set"), Word("user"), Word("bob")>>,
      <<Word("for"), Word("user"), Word("alice")>>,
      <<Word("User"), Word("alice"), Word("from"), IpText(Ip8888)>>,
      <<Word("Session"), Word("abc-1"), Word("for"), Word("user"), Word("bob"),
        Word("from"), IpText(<<192, 168, 1, 5>>)>>,
      <<Word("API"), Word("key:"), Word("sk123")>> }

InitAnonymize ==
    /\ pc = "sink"
    /\ bandwidth = Bandwidth(2, 50, 10, 100)
    /\ algorithm = "equal_split"
    /\ network \in NetworkPool
    /\ dry_run = FALSE
    /\ anonymize_logs \in BOOLEAN
    /\ save_anonymization_map = TRUE
    /\ interval_is_int = TRUE
    /\ running = FALSE
    /\ signalled = FALSE
    /\ NotReturned
    /\ SinkCleared
    /\ user_cache = NoCache
    /\ ticks = 0
    /\ CycleCleared
    /\ DirectCleared

\* one call on the anonymizer: what it returns and what it leaves
Called(op, arg, r) ==
    /\ pc = "sink"
    /\ alias_calls < MaxCalls
    /\ anonymizer' = r.self
    /\ alias_call' = [op |-> op, arg |-> arg, result |-> r.out]
    /\ alias_calls' = alias_calls + 1
    /\ UNCHANGED <<direct_vars, exit_vars, signalled, pc, config_vars, running,
                   user_cache, cycle_vars, ticks>>

CallAnonymizeUsername ==
    \E username \in UsernamePool :
        LET r == anonymize_username(anonymizer, username)
        IN  Called("username", <<username>>, Aliased(r.self, <<r.out>>))

CallAnonymizeIp ==
    \E address \in AddressPool :
        LET r == anonymize_ip(anonymizer, address)
        IN  Called("ip", <<address>>, Aliased(r.self, <<r.out>>))

CallAnonymizeSession ==
    \E session_id \in SessionIdPool :
        LET r == anonymize_session(anonymizer, session_id)
        IN  Called("session", <<session_id>>, Aliased(r.self, <<r.out>>))

CallAnonymizeApiKey ==
    \E api_key \in ApiKeyPool :
        LET r == anonymize_api_key(anonymizer, api_key)
        IN  Called("api_key", <<api_key>>, Aliased(r.self, <<r.out>>))

\* AnonymizingFormatter.format: the line goes through anonymize_message
CallAnonymizeMessage ==
    \E message \in MessagePool :
        Called("message", message, anonymize_message(anonymizer, message))

NextAnonymize ==
    \/ CallAnonymizeUsername
    \/ CallAnonymizeIp
    \/ CallAnonymizeSession
    \/ CallAnonymizeApiKey
    \/ CallAnonymizeMessage

SpecAnonymize == InitAnonymize /\ [][NextAnonymize]_vars

\* ------------------------------------------------------------------------
\* Properties
\* ------------------------------------------------------------------------
\* clamp(x, lo, hi) for lo <= hi
Clamp(x, lo, hi) == IF RLt(x, lo) THEN lo ELSE IF RLt(hi, x) THEN hi ELSE x

Positive(x) == RLt(Rat(0), x)
ValidBounds == RLt(bandwidth.min_per_user, bandwidth.max_per_user)
StreamerCount == Cardinality(DOMAIN external_streamers)
DirectCall(name) == pc = "direct" /\ strategy = name

\* C1: whichever strategy is called on a non-empty streamer set with a
\* budget > 0 and min_per_user < max_per_user, every value of the returned
\* mapping lies in [min_per_user, max_per_user].
C1_LimitsWithinBounds ==
    (/\ pc = "direct"
     /\ strategy # "none"
     /\ StreamerCount >= 1
     /\ Positive(available_bandwidth)
     /\ ValidBounds)
    => \A u \in DOMAIN user_limits :
          /\ RLe(bandwidth.min_per_user, user_limits[u])
          /\ RLe(user_limits[u], bandwidth.max_per_user)

\* two streamers share a budget of 1 Mbps by demand: both scaled shares are
\* below the floor and raised to it
C1_Witness ==
    /\ pc = "direct"
    /\ strategy = "demand_based"
    /\ available_bandwidth = Rat(1)
    /\ ValidBounds
    /\ StreamerCount = 2
    /\ \A u \in DOMAIN external_streamers :
          user_limits[u] = bandwidth.min_per_user

\* C7: each strategy returns the empty mapping, and does not raise, when the
\* streamer set is empty or the budget is <= 0, whatever the config.
C7_EmptyWithoutBudget ==
    (/\ pc = "direct"
     /\ strategy # "none"
     /\ (StreamerCount = 0 \/ RLe(available_bandwidth, Rat(0))))
    => (~raised /\ DOMAIN user_limits = {})

\* a call with streamers, one of them without a profile, and a budget of 0
C7_Witness ==
    /\ pc = "direct"
    /\ strategy # "none"
    /\ available_bandwidth = Rat(0)
    /\ \E u \in DOMAIN external_streamers : ~external_streamers[u].user_data.found
    /\ ~raised
    /\ DOMAIN user_limits = {}

\* what EqualSplit is to return: one value per streamer, each the clamped
\* equal share
EqualShares ==
    /\ DOMAIN user_limits = DOMAIN external_streamers
    /\ \A u \in DOMAIN user_limits :
          user_limits[u] = Clamp(RDiv(available_bandwidth, Rat(StreamerCount)),
                                 bandwidth.min_per_user, bandwidth.max_per_user)
    /\ \A u, v \in DOMAIN user_limits : user_limits[u] = user_limits[v]

\* C8 as stated: EqualSplit, for N >= 1 streamers and a budget >= 0, returns
\* one value per streamer, each equal to clamp(available / N), all equal.
C8_AsStated ==
    (/\ DirectCall("equal_split")
     /\ StreamerCount >= 1
     /\ RLe(Rat(0), available_bandwidth)
     /\ ValidBounds)
    => EqualShares

\* C8 amended: EqualSplit, for N >= 1 streamers and a budget > 0, returns
\* one value per streamer, each equal to clamp(available / N), all equal;
\* for a budget of 0 it returns the empty mapping.
C8_EqualSplit ==
    /\ (/\ DirectCall("equal_split")
        /\ StreamerCount >= 1
        /\ Positive(available_bandwidth)
        /\ ValidBounds)
       => EqualShares
    /\ (/\ DirectCall("equal_split")
        /\ available_bandwidth = Rat(0))
       => DOMAIN user_limits = {}

\* two streamers, 30 Mbps, bounds 2 and 10: 15 each, cut to 10
C8_Witness ==
    /\ DirectCall("equal_split")
    /\ StreamerCount = 2
    /\ available_bandwidth = Rat(30)
    /\ bandwidth.max_per_user = Rat(10)
    /\ \A u \in DOMAIN external_streamers : user_limits[u] = Rat(10)

\* the tier weight of a profile, first match in the order administrator,
\* premium, regular
TierWeight(p) ==
    CASE p.IsAdministrator -> 3
      [] ~p.IsAdministrator /\ ~p.IsDisabled /\ p.EnableAllFolders -> 2
      [] OTHER -> 1

TotalWeight ==
    LET tier(w) == {u \in DOMAIN external_streamers :
                       TierWeight(external_streamers[u].user_data) = w}
    IN  3 * Cardinality(tier(3)) + 2 * Cardinality(tier(2)) + Cardinality(tier(1))

AllProfilesFound ==
    \A u \in DOMAIN external_streamers : external_streamers[u].user_data.found

\* C9: PriorityBased gives every user clamp(unit * weight of its tier), with
\* unit = available / total_weight and the tiers administrator (3), premium
\* = not disabled and full library access (2), regular (1), first match
\* first; one administrator and one regular user with 30 Mbps and bounds 2
\* and 50 receive 22.5 and 7.5.
C9_PriorityBased ==
    (/\ DirectCall("priority_based")
     /\ StreamerCount >= 1
     /\ Positive(available_bandwidth)
     /\ ValidBounds
     /\ AllProfilesFound)
    => /\ ~raised
       /\ DOMAIN user_limits = DOMAIN external_streamers
       /\ \A u \in DOMAIN user_limits :
             user_limits[u] =
                 Clamp(RMul(RDiv(available_bandwidth, Rat(TotalWeight)),
                            Rat(TierWeight(external_streamers[u].user_data))),
                       bandwidth.min_per_user, bandwidth.max_per_user)
       /\ (/\ available_bandwidth = Rat(30)
           /\ bandwidth.min_per_user = Rat(2)
           /\ bandwidth.max_per_user = Rat(50)
           /\ StreamerCount = 2
           /\ \E a, r \in DOMAIN external_streamers :
                 /\ external_streamers[a].user_data.IsAdministrator
                 /\ external_streamers[r].user_data = Profile(FALSE, FALSE, FALSE))
          => \A u \in DOMAIN user_limits :
                user_limits[u] =
                    IF external_streamers[u].user_data.IsAdministrator
                    THEN <<45, 2>> ELSE <<15, 2>>

\* a disabled user with full library access next to an administrator, the
\* first weighing 1 and the second 3: 7.5 and 22.5 of 30 Mbps
C9_Witness ==
    /\ DirectCall("priority_based")
    /\ available_bandwidth = Rat(30)
    /\ ValidBounds
    /\ \E a, r \in DOMAIN external_streamers :
          /\ external_streamers[a].user_data.IsAdministrator
          /\ external_streamers[r].user_data = Profile(FALSE, TRUE, TRUE)
          /\ user_limits[a] = <<45, 2>>
          /\ user_limits[r] = <<15, 2>>

Demand(u) == estimate_required_bandwidth(external_streamers[u].session_data)
TotalDemand == RSum([u \in DOMAIN external_streamers |-> Demand(u)],
                    DOMAIN external_streamers)
DeclaredOnly(u, bps) ==
    /\ ~external_streamers[u].session_data.TranscodingInfo.present
    /\ external_streamers[u].session_data.NowPlayingItem.HasBitrate
    /\ external_streamers[u].session_data.NowPlayingItem.Bitrate = bps

\* C10: DemandBased gives every user clamp(demand) when the demands sum to
\* at most the budget, and clamp(demand * available / sum) otherwise, with
\* nothing rebalanced after the clamp; demands 20 and 20 with 30 Mbps give
\* 15 and 15, demands 8 and 6 with 20 Mbps give 8 and 6.
C10_DemandBased ==
    (/\ DirectCall("demand_based")
     /\ StreamerCount >= 1
     /\ Positive(available_bandwidth)
     /\ ValidBounds)
    => /\ ~raised
       /\ DOMAIN user_limits = DOMAIN external_streamers
       /\ \A u \in DOMAIN user_limits :
             user_limits[u] =
                 IF RLe(TotalDemand, available_bandwidth)
                 THEN Clamp(Demand(u), bandwidth.min_per_user,
                            bandwidth.max_per_user)
                 ELSE Clamp(RDiv(RMul(Demand(u), available_bandwidth), TotalDemand),
                            bandwidth.min_per_user, bandwidth.max_per_user)
       /\ (/\ StreamerCount = 2
           /\ bandwidth.max_per_user = Rat(50)
           /\ available_bandwidth = Rat(30)
           /\ \A u \in DOMAIN external_streamers : DeclaredOnly(u, 20000000))
          => \A u \in DOMAIN user_limits : user_limits[u] = Rat(15)
       /\ (/\ StreamerCount = 2
           /\ bandwidth.min_per_user = Rat(2)
           /\ available_bandwidth = Rat(20)
           /\ \E a, b \in DOMAIN external_streamers :
                 DeclaredOnly(a, 8000000) /\ DeclaredOnly(b, 6000000))
          => \A u \in DOMAIN user_limits :
                user_limits[u] = IF DeclaredOnly(u, 8000000) THEN Rat(8) ELSE Rat(6)

\* demands 20 and 20 scaled to 15 and 15 by a budget of 30
C10_Witness ==
    /\ DirectCall("demand_based")
    /\ StreamerCount = 2
    /\ available_bandwidth = Rat(30)
    /\ \A u \in DOMAIN external_streamers : DeclaredOnly(u, 20000000)
    /\ \A u \in DOMAIN external_streamers : user_limits[u] = Rat(15)

\* a session the listing keeps: unpaused, with a now-playing item
IsActive(s) == s.NowPlayingItem.present /\ s.IsPaused = FALSE

\* C2: set_user_bandwidth_limit is called for a user only if, in the same
\* cycle, an active session of that user with a remote endpoint has a client
\* IP the classifier judges external; a user seen only on internal addresses
\* has no limit written, in any cycle.
C2_OnlyExternalUsersLimited ==
    \A u \in DOMAIN setter_calls :
        /\ u \in DOMAIN external_streamers
        /\ LET s == external_streamers[u].session_data
           IN  /\ s \in SessionPool
               /\ IsActive(s)
               /\ s.UserId = u
               /\ s.RemoteEndPoint # <<>>
               /\ external_streamers[u].ip = Head(s.RemoteEndPoint)
               /\ is_external_ip(Head(s.RemoteEndPoint), network)
               /\ \A i \in 1..Len(internal_networks(network)) :
                     ~InNetwork(Head(s.RemoteEndPoint),
                                internal_networks(network)[i])

\* a cycle in which u2 has a limit written and u1 has none
C2_Witness ==
    /\ pc = "cycle_done"
    /\ DOMAIN setter_calls = {"u2"}
    /\ external_streamers["u2"].ip = Ip1111

\* C3: in dry-run mode set_user_bandwidth_limit is never called; the limits
\* computed are only logged.
C3_DryRunWritesNothing ==
    dry_run => DOMAIN setter_calls = {}

\* a dry-run cycle that computed limits for two users and logged them
C3_Witness ==
    /\ pc = "cycle_done"
    /\ dry_run
    /\ DOMAIN user_limits = {"u1", "u2"}
    /\ dry_logged = {"u1", "u2"}
    /\ DOMAIN setter_calls = {}

\* C4: under a configuration that passed validation, the budget handed to
\* the strategy is never negative.
C4_BudgetNeverNegative ==
    (pc \in {"apply", "cycle_done"} /\ strategy # "none")
    => RLe(Rat(0), available_bandwidth)

\* total - usage - reserved
BudgetDifference ==
    RSub(bandwidth.total_upload_mbps,
         RAdd(current_usage, bandwidth.reserved_bandwidth))

\* C5: with k >= 1 external streamers the limit calculation is called, and
\* with total - usage - reserved when that is >= 0, with min_per_user * k
\* when it is < 0; total 100, reserved 10, usage 95, k 2, min 2 give 4.
C5_BudgetOfTheCalculation ==
    /\ (pc = "cycle_done" /\ StreamerCount >= 1) => manager_called
    /\ manager_called =>
          /\ StreamerCount >= 1
          /\ RLe(Rat(0), BudgetDifference)
                => available_bandwidth = BudgetDifference
          /\ RLt(BudgetDifference, Rat(0))
                => available_bandwidth =
                       RMul(bandwidth.min_per_user, Rat(StreamerCount))
          /\ (/\ bandwidth.total_upload_mbps = Rat(100)
              /\ bandwidth.reserved_bandwidth = Rat(10)
              /\ bandwidth.min_per_user = Rat(2)
              /\ current_usage = Rat(95)
              /\ StreamerCount = 2)
             => available_bandwidth = Rat(4)

\* the literal case: usage 95 of 100 with 10 reserved, two external users
C5_Witness ==
    /\ pc = "cycle_done"
    /\ manager_called
    /\ bandwidth.min_per_user = Rat(2)
    /\ current_usage = Rat(95)
    /\ StreamerCount = 2
    /\ available_bandwidth = Rat(4)

SessionsOf(q) == {q[i] : i \in 1..Len(q)}

UsageShare(s) ==
    CASE s.TranscodingInfo.present /\ s.TranscodingInfo.Bitrate > 0
            -> <<s.TranscodingInfo.Bitrate, 1000000>>
      [] s.TranscodingInfo.present /\ s.TranscodingInfo.Bitrate <= 0
            -> <<0, 1>>
      [] ~s.TranscodingInfo.present /\ s.NowPlayingItem.HasBitrate
            -> <<s.NowPlayingItem.Bitrate, 1000000>>
      [] OTHER -> <<5, 1>>

FirstVideoHeight(ms) ==
    LET videos == {i \in 1..Len(ms) : ms[i].Type = "Video"}
    IN  IF videos = {} THEN -1
        ELSE ms[CHOOSE i \in videos : \A j \in videos : i <= j].Height

\* x is the float bps / 1,000,000
IsMbpsOf(x, bps) == x[1] * 1000000 = bps * x[2]

\* C11: the Usage Estimator returns the first positive match of: the
\* transcode bitrate / 1,000,000 if present and > 0; the declared bitrate /
\* 1,000,000 if > 0; from the first video stream 25.0 for a height >= 2160,
\* 10.0 for >= 1080, 5.0 for >= 720 and 3.0 otherwise; the constant 5.0;
\* and it returns a value for every session, absent fields included.
C11_EstimateByPriority ==
    pc = "estimated" =>
        LET t == session_data.TranscodingInfo
            np == session_data.NowPlayingItem
            h == FirstVideoHeight(np.MediaStreams)
        IN  CASE t.present /\ t.Bitrate > 0 -> IsMbpsOf(estimate, t.Bitrate)
              [] ~(t.present /\ t.Bitrate > 0)
                 /\ np.HasBitrate /\ np.Bitrate > 0
                    -> IsMbpsOf(estimate, np.Bitrate)
              [] OTHER ->
                    estimate = (IF h >= 2160 THEN <<25, 1>>
                                ELSE IF h >= 1080 THEN <<10, 1>>
                                ELSE IF h >= 720 THEN <<5, 1>>
                                ELSE IF h >= 0 THEN <<3, 1>>
                                ELSE <<5, 1>>)

\* transcoding info without a bitrate, a declared bitrate of 0, an audio
\* stream and then a video stream of height 1080: 10.0
C11_Witness ==
    /\ pc = "estimated"
    /\ session_data.TranscodingInfo = Transcoding(0)
    /\ session_data.NowPlayingItem = NowPlaying(TRUE, 0, <<Audio, Video(1080)>>)
    /\ estimate = <<10, 1>>

\* an IPv4 address in dotted form, or the IPv6 address "::1"
IsIPv4Text(text) == Len(text) = 4 /\ \A i \in 1..4 : text[i] \in 0..255
WellFormedIP(text) == IsIPv4Text(text) \/ text = IpV6Loopback

\* bit k (1 the highest, 32 the lowest) of an IPv4 address
BitOf(addr, k) ==
    LET octet == addr[((k - 1) \div 8) + 1]
        place == 7 - ((k - 1) % 8)
    IN  (octet \div Pow2(place)) % 2

\* the address is a member of the range the CIDR text denotes; a text that
\* denotes no range has no member
MemberOf(addr, range) ==
    \/ /\ IsIPv4Text(addr)
       /\ IsIPv4Text(range.addr)
       /\ range.prefix \in 0..32
       /\ \A k \in 1..range.prefix : BitOf(addr, k) = BitOf(range.addr, k)
    \/ /\ addr = IpV6Loopback
       /\ range.addr = IpV6Loopback
       /\ range.prefix \in 0..128

MatchesAny(addr, ranges) ==
    \E i \in 1..Len(ranges) : MemberOf(addr, ranges[i])

\* the orderings of a list of ranges
Reorderings(ranges) ==
    LET n == Len(ranges)
        perms == {f \in [1..n -> 1..n] : \A i, j \in 1..n : f[i] = f[j] => i = j}
    IN  {[i \in 1..n |-> ranges[f[i]]] : f \in perms}

\* C12: outside test mode, for every well-formed IP and every list of
\* internal ranges, is_external_ip returns true iff the IP is a member of
\* none of the internal ranges, whatever the order of the list;
\* 192.168.1.50 with 192.168.0.0/16 is internal, 8.8.8.8 is external.
C12_ExternalIffInNoInternalRange ==
    (pc = "classified" /\ ~network.test_mode /\ WellFormedIP(ip_str))
    => /\ is_external = ~MatchesAny(ip_str, network.internal_ranges)
       /\ \A other \in Reorderings(network.internal_ranges) :
             is_external_ip(ip_str, [network EXCEPT !.internal_ranges = other])
                 = is_external
       /\ (/\ ip_str = IpLan
           /\ \E i \in 1..Len(network.internal_ranges) :
                 network.internal_ranges[i] = Cidr(<<192, 168, 0, 0>>, 16))
          => ~is_external
       /\ (/\ ip_str = Ip8888
           /\ network.internal_ranges = <<Cidr(<<192, 168, 0, 0>>, 16)>>)
          => is_external

\* 192.168.1.50 with the ranges 10.0.0.0/8 and 192.168.0.0/16, in this
\* order, is internal by the second one
C12_Witness ==
    /\ pc = "classified"
    /\ ~network.test_mode
    /\ ip_str = IpLan
    /\ network.internal_ranges =
           <<Cidr(<<10, 0, 0, 0>>, 8), Cidr(<<192, 168, 0, 0>>, 16)>>
    /\ ~is_external

\* C13: whenever test_mode is true and the configured test_external_ranges
\* list is non-empty, is_external_ip returns true iff the IP matches at
\* least one test range, the internal ranges having no influence, for every
\* content of the list, entries that are no CIDR included.
C13_TestRangesDecide ==
    (/\ pc = "classified"
     /\ network.test_mode
     /\ network.test_external_ranges # <<>>
     /\ WellFormedIP(ip_str))
    => is_external = MatchesAny(ip_str, network.test_external_ranges)

\* C14: for every malformed IP string, in normal and in test mode,
\* is_external_ip returns false, and the call leaves the configured ranges
\* as they were.
C14_MalformedIsNotExternal ==
    /\ [](((pc = "classified") /\ ~WellFormedIP(ip_str)) => ~is_external)
    /\ [][pc' = "classified" => network' = network]_vars

\* "256.1.1.1" in test mode with the test range 8.8.8.8/32: not external
C14_Witness ==
    /\ pc = "classified"
    /\ network.test_mode
    /\ network.test_external_ranges = <<Cidr(Ip8888, 32)>>
    /\ ip_str = <<256, 1, 1, 1>>
    /\ ~is_external

\* C15: in a non-dry-run cycle whose allocation produced limits for u1..un,
\* set_user_bandwidth_limit is attempted for every one of them, with its
\* limit, whichever of the attempts failed (policy not read, write answered
\* with another status, transport error), and the cycle then ends as any
\* other, in the sleep.
C15_EveryLimitAttempted ==
    /\ []((pc = "cycle_done" /\ ~dry_run)
          => /\ DOMAIN setter_calls = DOMAIN user_limits
             /\ \A u \in DOMAIN user_limits :
                   /\ setter_calls[u].limit = user_limits[u]
                   /\ setter_calls[u].outcome \in SetterOutcomes)
    /\ [][pc = "apply" => pc' \in {"apply", "cycle_done"}]_vars
    /\ [][pc = "cycle_done" => pc' \in {"cycle_done", "sleep"}]_vars

\* limits for u1 and u2: the policy of u1 cannot be read and the write for
\* u2 raises, both calls are made
C15_Witness ==
    /\ pc = "cycle_done"
    /\ ~dry_run
    /\ DOMAIN user_limits = {"u1", "u2"}
    /\ DOMAIN setter_calls = {"u1", "u2"}
    /\ setter_calls["u1"].outcome = "no_policy"
    /\ setter_calls["u2"].outcome = "transport_error"

\* C16: if the session listing fails in a cycle (transport error or a status
\* other than 200), the cycle takes the session data as empty, so that no
\* set_user_bandwidth_limit call is made in that cycle.
C16_NoLimitAfterFailedListing ==
    (pc = "cycle_done" /\ failed_listings # {})
    => /\ DOMAIN external_streamers = {}
       /\ DOMAIN setter_calls = {}

\* C17: if the profile lookup for an external user returns not-found in a
\* cycle, the allocation of that cycle still succeeds under every strategy:
\* every external user, the one without a profile included, receives a limit
\* within the bounds, and the limits are applied or, in dry-run mode, logged.
C17_LimitsWithoutProfile ==
    (/\ pc = "cycle_done"
     /\ \E u \in DOMAIN external_streamers :
           ~external_streamers[u].user_data.found
     /\ strategy # "none"
     /\ Positive(available_bandwidth))
    => /\ ~raised
       /\ DOMAIN user_limits = DOMAIN external_streamers
       /\ \A u \in DOMAIN user_limits :
             /\ RLe(bandwidth.min_per_user, user_limits[u])
             /\ RLe(user_limits[u], bandwidth.max_per_user)
       /\ IF dry_run THEN dry_logged = DOMAIN user_limits
                     ELSE DOMAIN setter_calls = DOMAIN user_limits

\* the steps of one cycle, in their order
CycleSteps == <<"usage", "usage_return", "external", "apply", "cycle_done">>
StepOf(p) == CHOOSE i \in 1..Len(CycleSteps) : CycleSteps[i] = p

\* Running: a cycle is being executed; Idle: the loop is in its sleep
Running(p) == \E i \in 1..Len(CycleSteps) : CycleSteps[i] = p
Idle(p) == p \in {"sleep", "tick"}

\* C18: the control loop is in exactly one of Idle and Running, the two
\* alternate strictly, a cycle starts only after the apply step of the
\* previous one has finished, and no two cycles are in progress at once,
\* also when the signal handler runs in the middle of a cycle.
C18_CyclesAlternate ==
    /\ [](~(Running(pc) /\ Idle(pc)))
    /\ []((pc \in {"loop", "usage", "sleep", "tick"}) => CycleCleared)
    /\ [][(Running(pc) /\ Running(pc'))
             => StepOf(pc') \in {StepOf(pc), StepOf(pc) + 1}]_vars
    /\ [][(Running(pc) /\ ~Running(pc'))
             => (pc = "cycle_done" /\ pc' = "sleep")]_vars
    /\ [][(~Running(pc) /\ Running(pc'))
             => (pc = "loop" /\ pc' = "usage")]_vars
    /\ [][(Idle(pc) /\ ~Idle(pc')) => pc' = "loop"]_vars
    /\ [][(~Idle(pc) /\ Idle(pc')) => pc = "cycle_done"]_vars
    /\ [][(signalled' # signalled) => (pc' = pc /\ cycle_vars' = cycle_vars)]_vars

\* the signal handler has run in the middle of a cycle, and the cycle has
\* gone on to write its limits
C18_Witness ==
    /\ pc = "cycle_done"
    /\ signalled
    /\ ~running
    /\ DOMAIN setter_calls # {}

\* C19: once a shutdown signal has been delivered, at any moment after the
\* handlers were installed (before or during the connectivity check, during
\* a cycle, during the sleep), no new cycle is started.
C19_NoCycleAfterSignal ==
    [][signalled => ~(pc = "loop" /\ pc' = "usage")]_vars

\* C20: in the sleep between two cycles the flag is tested before every
\* one-second tick: when the flag is cleared during the sleep, at most the
\* tick in progress elapses before the loop is left, whatever the
\* update_interval.
C20_SleepEndsWithinOneTick ==
    /\ []((pc = "tick") => ticks \in 1..UpdateInterval)
    /\ [][(pc = "sleep" /\ pc' = "tick") => running]_vars
    /\ [][(pc = "sleep" /\ ~running) => pc' \in {"sleep", "loop"}]_vars
    /\ [][(pc = "tick") => (pc' \in {"tick", "sleep"} /\ ticks' <= ticks)]_vars
    /\ [][(pc \in {"sleep", "tick", "loop"} /\ ~running) => ~running']_vars
    /\ [][(pc = "loop" /\ ~running) => pc' \in {"loop", "finally"}]_vars

\* the flag was cleared during the sleep and it is tested after the first
\* tick, with more ticks left
C20_Witness ==
    /\ pc = "sleep"
    /\ signalled
    /\ ~running
    /\ ticks = UpdateInterval - 1
    /\ ticks >= 1

\* ------------------------------------------------------------------------
\* Shutdown
\* ------------------------------------------------------------------------
\* run has returned
Exited == pc = "exited"
SavingEnabled == anonymize_logs /\ save_anonymization_map

\* C21: on every path by which run returns (cancellation, an unexpected
\* exception in the loop, a failed connectivity check at startup) the
\* mapping has been saved exactly once when log anonymization and mapping
\* persistence are both enabled, and not at all when either is disabled.
C21_MappingSavedOnEveryReturn ==
    Exited => mapping_saves = (IF SavingEnabled THEN 1 ELSE 0)

\* C22: shutdown writes no limit: once the loop is left no call of the
\* Limit-Setter is on record, and a call is only ever made by the apply
\* step of a cycle, so that what the service holds for a user when run has
\* returned is what the last cycle's call left there.
C22_ShutdownWritesNoLimit ==
    /\ []((pc \in {"finally", "exited"}) => setter_calls = NoCalls)
    /\ [][(setter_calls' # setter_calls /\ setter_calls' # NoCalls)
             => (pc = "apply" /\ pc' = "cycle_done")]_vars

\* run has returned 0 after a signal, having met both users as external
\* streamers in its cycles
C22_Witness ==
    /\ Exited
    /\ exit_code = 0
    /\ signalled
    /\ ~dry_run
    /\ DOMAIN user_cache = {"u1", "u2"}

\* ------------------------------------------------------------------------
\* One snapshot per cycle
\* ------------------------------------------------------------------------
\* the lists of active sessions a listing can return
ActiveLists == {l.active : l \in ListingOutcomes}

\* the sessions of a list that get_external_streamers takes
ExternalOf(active) ==
    {s \in SessionsOf(active) : IsExternalSession(s, network)}

\* the usage figure and the external subset both describe the list active
DescribesOneList(active) ==
    /\ current_usage = TotalUsage(active)
    /\ DOMAIN external_streamers = {s.UserId : s \in ExternalOf(active)}
    /\ \A u \in DOMAIN external_streamers :
          external_streamers[u].session_data \in ExternalOf(active)

\* C25: within one cycle the usage figure and the external subset are
\* derived from one and the same list of sessions, also when the Session
\* Provider's answer changes or fails between two moments of the cycle.
C25_OneSnapshotPerCycle ==
    (pc = "apply") => \E active \in ActiveLists : DescribesOneList(active)

\* ------------------------------------------------------------------------
\* The manager's guard and the floor fallback
\* ------------------------------------------------------------------------
\* calculate_limits, given less than min_per_user, returns {} and does not
\* call the strategy
GuardSkipsStrategy ==
    (manager_called /\ RLt(available_bandwidth, bandwidth.min_per_user))
    => (strategy = "none" /\ ~raised /\ user_limits = EmptyMap)

\* a cycle with external streamers and 0 <= total - usage - reserved <
\* min_per_user writes no limit and logs none
BelowMinWritesNothing ==
    (/\ pc = "cycle_done"
     /\ StreamerCount >= 1
     /\ RLe(Rat(0), BudgetDifference)
     /\ RLt(BudgetDifference, bandwidth.min_per_user))
    => (manager_called /\ strategy = "none" /\ setter_calls = NoCalls
        /\ dry_logged = {} /\ set_logged = {})

\* a cycle with external streamers and total - usage - reserved < 0 gives
\* every external user a limit
NegativeAssignsLimits ==
    (/\ pc = "cycle_done"
     /\ StreamerCount >= 1
     /\ RLt(BudgetDifference, Rat(0)))
    => DOMAIN user_limits = DOMAIN external_streamers

\* C27: calculate_limits returns an empty mapping without invoking the
\* strategy whenever its budget is below min_per_user; so a cycle with
\* external streamers and 0 <= available < min_per_user writes no limit,
\* whereas a cycle with available < 0 assigns limits through the floor
\* fallback.
C27_FloorFallbackAssignsLimits ==
    /\ GuardSkipsStrategy
    /\ BelowMinWritesNothing
    /\ NegativeAssignsLimits

\* ------------------------------------------------------------------------
\* The log of applied limits
\* ------------------------------------------------------------------------
\* C29: in non-dry-run mode a limit is reported as applied (the line "Set
\* user ... bandwidth limit") for a user in a cycle only if the Limit-Setter
\* call for that user in that cycle returned success.
C29_ReportedOnlyIfApplied ==
    ~dry_run =>
        \A u \in set_logged :
            /\ u \in DOMAIN setter_calls
            /\ setter_calls[u].outcome = "ok"

\* ------------------------------------------------------------------------
\* The sum of the limits
\* ------------------------------------------------------------------------
\* the share of user u before the clamp, under the strategy that was called
PreClampShare(u) ==
    CASE strategy = "equal_split" ->
             RDiv(available_bandwidth, Rat(StreamerCount))
      [] strategy = "priority_based" ->
             RMul(RDiv(available_bandwidth, Rat(TotalWeight)),
                  Rat(TierWeight(external_streamers[u].user_data)))
      [] strategy = "demand_based" ->
             IF RLe(TotalDemand, available_bandwidth)
             THEN Demand(u)
             ELSE RDiv(RMul(Demand(u), available_bandwidth), TotalDemand)

\* no user's share is below min_per_user: the lower clamp does not trigger
NoLowerClamp ==
    \A u \in DOMAIN external_streamers :
        ~RLt(PreClampShare(u), bandwidth.min_per_user)

SumOfLimits == RSum(user_limits, DOMAIN user_limits)

\* C28 as stated: for each strategy, whenever no user's pre-clamp share is
\* below min_per_user, the sum of the returned limits is <= the budget.
C28_AsStated ==
    (/\ pc = "direct"
     /\ strategy # "none"
     /\ NoLowerClamp)
    => RLe(SumOfLimits, available_bandwidth)

\* C28: for each strategy, whenever the budget is >= 0 and no user's
\* pre-clamp share is below min_per_user, the sum of the returned limits is
\* <= the budget.
C28_SumWithinBudget ==
    (/\ pc = "direct"
     /\ strategy # "none"
     /\ RLe(Rat(0), available_bandwidth)
     /\ NoLowerClamp)
    => RLe(SumOfLimits, available_bandwidth)

\* two users whose scaled demands, 15 and 15, use up the budget of 30
C28_Witness ==
    /\ DirectCall("demand_based")
    /\ StreamerCount = 2
    /\ available_bandwidth = Rat(30)
    /\ bandwidth.min_per_user = Rat(2)
    /\ NoLowerClamp
    /\ \A u \in DOMAIN user_limits : user_limits[u] = Rat(15)
    /\ SumOfLimits = Rat(30)

\* ------------------------------------------------------------------------
\* The external subset
\* ------------------------------------------------------------------------
\* the client address a RemoteEndPoint carries: the IPv6 address of the two
\* IPv6 endpoints, the text before the port of "address" and "address:port"
ClientAddress(endpoint) ==
    IF endpoint \in {EndpointV6, EndpointV6Port} THEN IpV6Loopback
    ELSE IF Len(endpoint) <= 2 THEN Head(endpoint)
    ELSE <<-1>>

\* a user id, an endpoint, a well-formed client address outside every
\* internal range
StreamsFromOutside(s) ==
    /\ s.UserId # ""
    /\ s.RemoteEndPoint # <<>>
    /\ WellFormedIP(ClientAddress(s.RemoteEndPoint))
    /\ ~MatchesAny(ClientAddress(s.RemoteEndPoint), network.internal_ranges)

\* C30: for every active session with a user id and a remote endpoint whose
\* client address is well-formed (IPv4 or IPv6, with or without a port) and
\* outside all internal ranges, the session's user is in the external subset
\* built from the list.
C30_ExternalUsersCollected ==
    (pc = "collected")
    => \A s \in SessionsOf(sessions) :
          StreamsFromOutside(s) => s.UserId \in DOMAIN external_streamers

\* ------------------------------------------------------------------------
\* The aliases
\* ------------------------------------------------------------------------
Injective(map) ==
    \A a, b \in DOMAIN map : map[a] = map[b] => a = b

\* what is on record in a map stays on record, unchanged
Kept(before, after) ==
    \A x \in DOMAIN before : x \in DOMAIN after /\ after[x] = before[x]

\* the map an alias operation writes
MapOf(op) ==
    CASE op = "username" -> anonymizer.username_map
      [] op = "ip" -> anonymizer.ip_map
      [] op = "session" -> anonymizer.session_map

\* C23: with anonymization enabled, after any sequence of alias calls on
\* usernames, IPs and session ids, each of the three maps is injective, and
\* the alias of an original, once assigned, is what every later call for
\* that original returns: a call returns the alias on record, and an alias
\* on record is never changed.
C23_AliasesInjectiveAndStable ==
    /\ [](anonymizer.enabled =>
             /\ Injective(anonymizer.username_map)
             /\ Injective(anonymizer.ip_map)
             /\ Injective(anonymizer.session_map))
    /\ []((/\ anonymizer.enabled
           /\ alias_call.op \in {"username", "ip", "session"}
           /\ alias_call.arg # <<EmptyText>>)
          => /\ alias_call.arg[1] \in DOMAIN MapOf(alias_call.op)
             /\ alias_call.result = <<MapOf(alias_call.op)[alias_call.arg[1]]>>)
    /\ [][/\ Kept(anonymizer.username_map, anonymizer'.username_map)
          /\ Kept(anonymizer.ip_map, anonymizer'.ip_map)
          /\ Kept(anonymizer.session_map, anonymizer'.session_map)]_vars

\* alice, then bob, then alice again: the third call returns the alias of
\* the first, which is not bob's
C23_Witness ==
    /\ anonymizer.enabled
    /\ alias_calls = 3
    /\ alias_call = [op |-> "username", arg |-> <<Word("alice")>>,
                     result |-> <<Text("User-", 1)>>]
    /\ Word("bob") \in DOMAIN anonymizer.username_map
    /\ anonymizer.username_map[Word("bob")] = Text("User-", 2)
    /\ anonymizer.user_counter = 2

\* C24: with anonymization disabled every alias operation and
\* anonymize_message return their input, and the three maps and the three
\* counters stay empty and zero after any sequence of calls.
C24_DisabledChangesNothing ==
    ~anonymizer.enabled =>
        /\ anonymizer = LogAnonymizer(FALSE)
        /\ alias_call.result = alias_call.arg

\* a username and a message with a username and an address went through
\* the disabled sink
C24_Witness ==
    /\ ~anonymizer.enabled
    /\ alias_calls = 2
    /\ alias_call.op = "message"
    /\ alias_call.arg = <<Word("User"), Word("alice"), Word("from"), IpText(Ip8888)>>
    /\ alias_call.result = alias_call.arg
    /\ anonymizer.user_counter = 0

\* a username that one of the phrases "user X", "Set user X", "for user X",
\* "User: X" carries at place i of the message
Carried(message, i) ==
    /\ i >= 2
    /\ message[i] \in {Word("alice"), Word("bob")}
    /\ Fold(message[i - 1].stem) \in {"user", "user:"}

\* C26: in every message that went through the enabled sink, a username
\* carried by one of the username phrases is rendered as the one alias the
\* username has, whichever phrase carried it; the alias written by one rule
\* is not aliased again by a later rule of the same pass.
C26_OneAliasPerUsername ==
    (anonymizer.enabled /\ alias_call.op = "message")
    => \A i \in 1..Len(alias_call.arg) :
          Carried(alias_call.arg, i)
          => alias_call.result[i] = anonymizer.username_map[alias_call.arg[i]]
====
